---- MODULE Spec2Model ----
(***************************************************************************)
(* Holder classification and supply decomposition engine                   *)
(* (src/src/lib/test.ts: AccountTypeClassifier and SolanaLib).             *)
(*                                                                         *)
(* Amounts.  Every UI amount of one mint is raw / 10^decimals with the     *)
(* mint's own decimals, so a UI amount is represented here by its raw      *)
(* integer (the amount in units of 10^-decimals); sums, differences and    *)
(* comparisons of UI amounts are then exact integer operations.  Floating  *)
(* point rounding is outside the model.                                    *)
(*                                                                         *)
(* Time is counted in whole days; Date.now() is the day Now.               *)
(***************************************************************************)
EXTENDS Integers, Sequences, FiniteSets, TLC

VARIABLES
    pc,         \* position of the running operation
    chain,      \* the providers' fixed responses for this run
    data,       \* classifyAccount: the metadata argument
    acct,       \* classifyAccount: the returned AccountClassification
    wIn,        \* classifyWallet / getSupplyPct: the arguments
    wOut,       \* classifyWallet / getSupplyPct: the returned values
    hist,       \* analyzeWalletHistory: locals (page, allTransfers, requests)
    histOut,    \* analyzeWalletHistory: the returned summary
    cth,        \* classifyTokenHolders: locals (index, classifications)
    split,      \* getSupplySplitTop20 / getSupplySplitFull: locals and result
    lock,       \* getLockBreakdown: locals and result
    report,     \* generate: locals and the report file
    analysis    \* getSupplyAnalysis: the two pending calls and the result

vars == <<pc, chain, data, acct, wIn, wOut, hist, histOut, cth, split, lock, report,
         analysis>>

----------------------------------------------------------------------------
(* Strings                                                                 *)

Undefined == "<undefined>"

\* String.prototype.includes
Includes(haystack, needle) ==
    \E i \in 1..(Len(haystack) - Len(needle) + 1) :
        SubSeq(haystack, i, i + Len(needle) - 1) = needle

UpperChars == "ABCDEFGHIJKLMNOPQRSTUVWXYZ"
LowerChars == "abcdefghijklmnopqrstuvwxyz"

LowerChar(c) ==
    IF \E i \in 1..26 : SubSeq(UpperChars, i, i) = c
    THEN LET i == CHOOSE j \in 1..26 : SubSeq(UpperChars, j, j) = c
         IN  SubSeq(LowerChars, i, i)
    ELSE c

\* String.prototype.toLowerCase
RECURSIVE toLowerCase(_)
toLowerCase(s) ==
    IF Len(s) = 0 THEN ""
    ELSE toLowerCase(SubSeq(s, 1, Len(s) - 1)) \o LowerChar(SubSeq(s, Len(s), Len(s)))

\* Array.prototype.includes
ArrIncludes(arr, x) == \E i \in 1..Len(arr) : arr[i] = x

\* arr.map(f) for f = toLowerCase
MapLower(arr) == [i \in 1..Len(arr) |-> toLowerCase(arr[i])]

\* arr[0] || other : the first element when there is one
FirstOr(arr, other) == IF Len(arr) > 0 THEN arr[1] ELSE other

----------------------------------------------------------------------------
(* AccountTypeClassifier                                                   *)

CEX_LABELS == <<"binance", "coinbase", "mexc", "okx", "bybit", "kucoin",
                "gate.io", "huobi", "htx", "crypto.com", "kraken", "bitfinex",
                "gemini", "bitstamp", "upbit", "bithumb">>
CEX_TAGS == <<"cex", "exchange", "centralized_exchange">>

DEX_LABELS == <<"raydium", "jupiter", "orca", "serum", "mango", "drift",
                "phoenix", "1inch", "uniswap", "sushiswap", "meteora", "meteora dex">>
DEX_TAGS == <<"dex", "dex_wallet", "aggregator", "amm">>

DEFI_LABELS == <<"solend", "kamino", "marginfi", "jet", "francium", "apricot",
                 "port", "larix", "tulip", "quarry", "sunny", "saber">>
DEFI_TAGS == <<"defi", "lending", "yield_farming", "liquidity_provider",
               "protocol", "vault">>

BRIDGE_LABELS == <<"wormhole", "portal", "allbridge", "multichain", "synapse",
                   "hop", "across", "stargate">>
BRIDGE_TAGS == <<"bridge", "cross_chain", "interoperability">>

STAKING_LABELS == <<"marinade", "lido", "jito", "blaze", "cogent", "stake_pool">>
STAKING_TAGS == <<"staking", "stake_pool", "validator", "liquid_staking">>

NFT_LABELS == <<"magic eden", "opensea", "solanart", "digitaleyes", "alpha art",
                "solsea", "hyperspace", "tensor", "coral cube">>
NFT_TAGS == <<"nft", "marketplace", "nft_trader", "collection">>

MM_LABELS == <<"market maker", "mm", "jump", "alameda", "wintermute",
               "galaxy digital", "hudson river", "optiver">>
MM_TAGS == <<"market_maker", "institutional", "prop_trading">>

PROGRAM_KEYWORDS == <<"authority", "program", "mint", "token program",
                      "system program", "metaplex", "anchor", "multisig">>

whaleIndicators == <<"whale", "large_holder", "high_volume">>
botIndicators == <<"bot", "automated", "high_frequency">>

\* AccountType (src/src/common/constants.ts)
AccountType == [CEX |-> "cex", DEX |-> "dex", DEFI_PROTOCOL |-> "defi_protocol",
                BRIDGE |-> "bridge", STAKING |-> "staking",
                NFT_MARKETPLACE |-> "nft_marketplace", VALIDATOR |-> "validator",
                PROGRAM_AUTHORITY |-> "program_authority",
                MARKET_MAKER |-> "market_maker", WHALE |-> "whale",
                BOT_TRADER |-> "bot_trader", INSTITUTIONAL |-> "institutional",
                UNKNOWN |-> "unknown"]

\* the `null` a check returns when it does not match
NoMatch == [type |-> "null", confidence |-> "null", subType |-> Undefined]

\* LIST.filter(k => label.includes(k))
LabelMatches(list, label) == SelectSeq(list, LAMBDA k : Includes(label, k))
\* tags.filter(tag => LIST.includes(tag))
TagMatches(list, tags) == SelectSeq(tags, LAMBDA t : ArrIncludes(list, t))

\* the shape shared by checkCEX, checkDEX, checkBridge, checkDeFi, checkNFT
\* and checkMarketMaker
checkLabelOrTag(type, labels, tagList, label, tags) ==
    LET m  == LabelMatches(labels, label)
        tm == TagMatches(tagList, tags)
    IN  IF Len(m) > 0 \/ Len(tm) > 0
        THEN [type |-> type, confidence |-> "high",
              subType |-> FirstOr(m, FirstOr(tm, Undefined))]
        ELSE NoMatch

checkCEX(label, tags) ==
    checkLabelOrTag(AccountType.CEX, CEX_LABELS, CEX_TAGS, label, tags)
checkDEX(label, tags) ==
    checkLabelOrTag(AccountType.DEX, DEX_LABELS, DEX_TAGS, label, tags)
checkBridge(label, tags) ==
    checkLabelOrTag(AccountType.BRIDGE, BRIDGE_LABELS, BRIDGE_TAGS, label, tags)
checkDeFi(label, tags) ==
    checkLabelOrTag(AccountType.DEFI_PROTOCOL, DEFI_LABELS, DEFI_TAGS, label, tags)
checkNFT(label, tags) ==
    checkLabelOrTag(AccountType.NFT_MARKETPLACE, NFT_LABELS, NFT_TAGS, label, tags)
checkMarketMaker(label, tags) ==
    checkLabelOrTag(AccountType.MARKET_MAKER, MM_LABELS, MM_TAGS, label, tags)

\* a match by the generic keyword alone is trusted like a service label
checkStaking_AlwaysHigh(label, tags) ==
    LET m  == LabelMatches(STAKING_LABELS, label)
        tm == TagMatches(STAKING_TAGS, tags)
        hasStakeKeyword == Includes(label, "stake") \/ Includes(label, "validator")
    IN  IF Len(m) > 0 \/ Len(tm) > 0 \/ hasStakeKeyword
        THEN [type |-> AccountType.STAKING, confidence |-> "high",
              subType |-> FirstOr(m, FirstOr(tm, Undefined))]
        ELSE NoMatch

checkStaking(label, tags) ==
    LET m  == LabelMatches(STAKING_LABELS, label)
        tm == TagMatches(STAKING_TAGS, tags)
        hasStakeKeyword == Includes(label, "stake") \/ Includes(label, "validator")
    IN  IF Len(m) > 0 \/ Len(tm) > 0 \/ hasStakeKeyword
        THEN [type |-> AccountType.STAKING,
              confidence |-> IF Len(m) > 0 \/ Len(tm) > 0 THEN "high" ELSE "medium",
              subType |-> FirstOr(m, FirstOr(tm, Undefined))]
        ELSE NoMatch

checkProgram(label, tags) ==
    LET m == LabelMatches(PROGRAM_KEYWORDS, label)
    IN  IF Len(m) > 0
        THEN [type |-> AccountType.PROGRAM_AUTHORITY, confidence |-> "high",
              subType |-> m[1]]
        ELSE NoMatch

checkValidator(label, tags) ==
    LET hasValidatorKeyword == Includes(label, "validator") /\ ~Includes(label, "stake")
        hasValidatorTag == ArrIncludes(tags, "validator")
    IN  IF hasValidatorKeyword \/ hasValidatorTag
        THEN [type |-> AccountType.VALIDATOR, confidence |-> "high",
              subType |-> Undefined]
        ELSE NoMatch

checkBehaviorPatterns(label, tags) ==
    IF Len(TagMatches(whaleIndicators, tags)) > 0
    THEN [type |-> AccountType.WHALE, confidence |-> "medium", subType |-> Undefined]
    ELSE IF Len(TagMatches(botIndicators, tags)) > 0
    THEN [type |-> AccountType.BOT_TRADER, confidence |-> "medium", subType |-> Undefined]
    ELSE NoMatch

\* SolscanAccountData | null.  An absent account_label is the empty string:
\* every reader of the label applies `|| ''`, `|| null` or `||` to it.
NullData == [isNull |-> TRUE, account_label |-> "", account_tags |-> <<>>]
MkData(label, tags) == [isNull |-> FALSE, account_label |-> label, account_tags |-> tags]

UnknownHigh == [type |-> AccountType.UNKNOWN, confidence |-> "high", subType |-> Undefined]

\* the cascade with CEX and DEX exchanged
classifyAccount_DexFirst(d) ==
    IF d.isNull THEN UnknownHigh
    ELSE LET labelLower == toLowerCase(d.account_label)
             tagsLower  == MapLower(d.account_tags)
         IN  IF checkDEX(labelLower, tagsLower) # NoMatch
                 THEN checkDEX(labelLower, tagsLower)
             ELSE IF checkCEX(labelLower, tagsLower) # NoMatch
                 THEN checkCEX(labelLower, tagsLower)
             ELSE IF checkBridge(labelLower, tagsLower) # NoMatch
                 THEN checkBridge(labelLower, tagsLower)
             ELSE IF checkStaking(labelLower, tagsLower) # NoMatch
                 THEN checkStaking(labelLower, tagsLower)
             ELSE IF checkDeFi(labelLower, tagsLower) # NoMatch
                 THEN checkDeFi(labelLower, tagsLower)
             ELSE IF checkNFT(labelLower, tagsLower) # NoMatch
                 THEN checkNFT(labelLower, tagsLower)
             ELSE IF checkMarketMaker(labelLower, tagsLower) # NoMatch
                 THEN checkMarketMaker(labelLower, tagsLower)
             ELSE IF checkProgram(labelLower, tagsLower) # NoMatch
                 THEN checkProgram(labelLower, tagsLower)
             ELSE IF checkValidator(labelLower, tagsLower) # NoMatch
                 THEN checkValidator(labelLower, tagsLower)
             ELSE IF checkBehaviorPatterns(labelLower, tagsLower) # NoMatch
                 THEN checkBehaviorPatterns(labelLower, tagsLower)
             ELSE UnknownHigh

classifyAccount(d) ==
    IF d.isNull THEN UnknownHigh
    ELSE LET labelLower == toLowerCase(d.account_label)
             tagsLower  == MapLower(d.account_tags)
         IN  IF checkCEX(labelLower, tagsLower) # NoMatch
                 THEN checkCEX(labelLower, tagsLower)
             ELSE IF checkDEX(labelLower, tagsLower) # NoMatch
                 THEN checkDEX(labelLower, tagsLower)
             ELSE IF checkBridge(labelLower, tagsLower) # NoMatch
                 THEN checkBridge(labelLower, tagsLower)
             ELSE IF checkStaking(labelLower, tagsLower) # NoMatch
                 THEN checkStaking(labelLower, tagsLower)
             ELSE IF checkDeFi(labelLower, tagsLower) # NoMatch
                 THEN checkDeFi(labelLower, tagsLower)
             ELSE IF checkNFT(labelLower, tagsLower) # NoMatch
                 THEN checkNFT(labelLower, tagsLower)
             ELSE IF checkMarketMaker(labelLower, tagsLower) # NoMatch
                 THEN checkMarketMaker(labelLower, tagsLower)
             ELSE IF checkProgram(labelLower, tagsLower) # NoMatch
                 THEN checkProgram(labelLower, tagsLower)
             ELSE IF checkValidator(labelLower, tagsLower) # NoMatch
                 THEN checkValidator(labelLower, tagsLower)
             ELSE IF checkBehaviorPatterns(labelLower, tagsLower) # NoMatch
                 THEN checkBehaviorPatterns(labelLower, tagsLower)
             ELSE UnknownHigh

----------------------------------------------------------------------------
(* Bounds of the model                                                     *)

\* Date.now(), as a day number
Now == 1000
\* decimals of the mint under analysis
Decimals == 0
\* number of tags attached to one metadata record
MaxTags == 2
\* records on a page that is not full
ShortLen == 37
\* full pages a history feed can hold before its last page
MaxFullPages == 11
\* accounts returned by getTokenLargestAccounts
TopN == 2

RECURSIVE Pow10(_)
Pow10(n) == IF n = 0 THEN 1 ELSE 10 * Pow10(n - 1)

\* one UI token, in the raw units that represent UI amounts here
Unit == Pow10(Decimals)

Abs(x) == IF x < 0 THEN -x ELSE x
Max(a, b) == IF a >= b THEN a ELSE b

----------------------------------------------------------------------------
(* SolanaLib.getSupplyPct and SolanaLib.classifyWallet                     *)

\* WalletCategory (src/src/common/constants.ts)
WalletCategory == [Exchange |-> "exchange", Foundation |-> "foundation",
                   Investor |-> "investor", Team |-> "team",
                   Community |-> "community", Dex |-> "dex",
                   Infrastructure |-> "infrastructure",
                   MarketMaker |-> "market_maker"]

\* scaling by 100 instead of 10000: whole percents only
getSupplyPct_Coarse(balanceRaw, supplyRaw) == ((balanceRaw * 100) \div supplyRaw) * 100

\* Number((balanceRaw * 10000n) / supplyRaw) / 100.  The value is given in
\* hundredths of a percent: the BigInt quotient q stands for the number q / 100.
getSupplyPct(balanceRaw, supplyRaw) == (balanceRaw * 10000) \div supplyRaw

NoDate == -1

\* WalletHistorySummary; dates are day numbers, lastOutflowAt is NoDate for null
MkHistory(firstTx, lastTx, txCount, hasSold, netFlow, lastOutflowAt) ==
    [firstTx |-> firstTx, lastTx |-> lastTx, txCount |-> txCount,
     hasSold |-> hasSold, netFlow |-> netFlow, lastOutflowAt |-> lastOutflowAt]

\* ClassifyWalletContext; an absent field is Undefined (FALSE for the flags)
MkCtx(type, confidence, isDex, isCex) ==
    [accountType |-> type, classificationConfidence |-> confidence,
     isDex |-> isDex, isCex |-> isCex]

EmptyCtx == MkCtx(Undefined, Undefined, FALSE, FALSE)

\* the exchange rule is tried before the holder-size rules
classifyWalletBehavioral_ExchangeFirst(balance, balanceRaw, supplyRaw, history, ctx) ==
    LET pct     == getSupplyPct(balanceRaw, supplyRaw)
        ageDays == Now - history.firstTx
    IN  IF history.txCount > 1000 \/ Abs(history.netFlow) > 10000000 * Unit
            THEN WalletCategory.Exchange
        ELSE IF pct >= 500 /\ ~history.hasSold
            THEN WalletCategory.Foundation
        ELSE IF pct >= 100 /\ pct < 500 /\ history.txCount < 20 /\ ageDays > 180
            THEN WalletCategory.Investor
        ELSE IF pct >= 10 /\ pct < 100 /\ ~history.hasSold /\ history.txCount < 50
            THEN WalletCategory.Team
        ELSE IF history.txCount > 100 /\ 10 * Abs(history.netFlow) < balance
                /\ ageDays > 30
            THEN WalletCategory.MarketMaker
        ELSE IF ctx.classificationConfidence = "medium" /\ ctx.accountType # Undefined
                /\ ctx.accountType = AccountType.WHALE
            THEN (IF pct >= 50 THEN WalletCategory.Investor ELSE WalletCategory.Community)
        ELSE IF ctx.classificationConfidence = "medium" /\ ctx.accountType # Undefined
                /\ ctx.accountType \in {AccountType.INSTITUTIONAL, AccountType.BOT_TRADER}
            THEN WalletCategory.MarketMaker
        ELSE WalletCategory.Community

\* a medium-confidence label is used before the behaviour is looked at
classifyWalletBehavioral_LabelFirst(balance, balanceRaw, supplyRaw, history, ctx) ==
    LET pct     == getSupplyPct(balanceRaw, supplyRaw)
        ageDays == Now - history.firstTx
    IN  IF ctx.classificationConfidence = "medium" /\ ctx.accountType # Undefined
                /\ ctx.accountType = AccountType.WHALE
            THEN (IF pct >= 50 THEN WalletCategory.Investor ELSE WalletCategory.Community)
        ELSE IF ctx.classificationConfidence = "medium" /\ ctx.accountType # Undefined
                /\ ctx.accountType \in {AccountType.INSTITUTIONAL, AccountType.BOT_TRADER}
            THEN WalletCategory.MarketMaker
        ELSE IF pct >= 500 /\ ~history.hasSold
            THEN WalletCategory.Foundation
        ELSE IF pct >= 100 /\ pct < 500 /\ history.txCount < 20 /\ ageDays > 180
            THEN WalletCategory.Investor
        ELSE IF pct >= 10 /\ pct < 100 /\ ~history.hasSold /\ history.txCount < 50
            THEN WalletCategory.Team
        ELSE IF history.txCount > 1000 \/ Abs(history.netFlow) > 10000000 * Unit
            THEN WalletCategory.Exchange
        ELSE IF history.txCount > 100 /\ 10 * Abs(history.netFlow) < balance
                /\ ageDays > 30
            THEN WalletCategory.MarketMaker
        ELSE WalletCategory.Community

\* rules 3 to 5 of classifyWallet: behaviour, medium-confidence labels, default
classifyWalletBehavioral(balance, balanceRaw, supplyRaw, history, ctx) ==
    LET pct     == getSupplyPct(balanceRaw, supplyRaw)
        ageDays == Now - history.firstTx
    IN  IF pct >= 500 /\ ~history.hasSold
            THEN WalletCategory.Foundation
        ELSE IF pct >= 100 /\ pct < 500 /\ history.txCount < 20 /\ ageDays > 180
            THEN WalletCategory.Investor
        ELSE IF pct >= 10 /\ pct < 100 /\ ~history.hasSold /\ history.txCount < 50
            THEN WalletCategory.Team
        ELSE IF history.txCount > 1000 \/ Abs(history.netFlow) > 10000000 * Unit
            THEN WalletCategory.Exchange
        ELSE IF history.txCount > 100 /\ 10 * Abs(history.netFlow) < balance
                /\ ageDays > 30
            THEN WalletCategory.MarketMaker
        ELSE IF ctx.classificationConfidence = "medium" /\ ctx.accountType # Undefined
                /\ ctx.accountType = AccountType.WHALE
            THEN (IF pct >= 50 THEN WalletCategory.Investor ELSE WalletCategory.Community)
        ELSE IF ctx.classificationConfidence = "medium" /\ ctx.accountType # Undefined
                /\ ctx.accountType \in {AccountType.INSTITUTIONAL, AccountType.BOT_TRADER}
            THEN WalletCategory.MarketMaker
        ELSE WalletCategory.Community

\* the behavioural rules run before the label rules
classifyWallet_BehaviorFirst(balance, balanceRaw, supplyRaw, history, ctx) ==
    LET b == classifyWalletBehavioral(balance, balanceRaw, supplyRaw, history, EmptyCtx)
    IN  IF b # WalletCategory.Community THEN b
        ELSE IF ctx.classificationConfidence = "high" /\ ctx.accountType = AccountType.CEX
            THEN WalletCategory.Exchange
        ELSE IF ctx.classificationConfidence = "high" /\ ctx.accountType = AccountType.DEX
            THEN WalletCategory.Dex
        ELSE IF ctx.isCex THEN WalletCategory.Exchange
        ELSE IF ctx.isDex THEN WalletCategory.Dex
        ELSE classifyWalletBehavioral(balance, balanceRaw, supplyRaw, history, ctx)

\* a high-confidence DEFI_PROTOCOL label is taken for infrastructure
classifyWallet_DefiInfra(balance, balanceRaw, supplyRaw, history, ctx) ==
    LET high == ctx.classificationConfidence = "high" /\ ctx.accountType # Undefined
    IN  IF high /\ ctx.accountType = AccountType.CEX
            THEN WalletCategory.Exchange
        ELSE IF high /\ ctx.accountType = AccountType.DEX
            THEN WalletCategory.Dex
        ELSE IF high /\ ctx.accountType \in
                    {AccountType.BRIDGE, AccountType.STAKING, AccountType.DEFI_PROTOCOL,
                     AccountType.PROGRAM_AUTHORITY, AccountType.VALIDATOR}
            THEN WalletCategory.Infrastructure
        ELSE IF high /\ ctx.accountType = AccountType.MARKET_MAKER
            THEN WalletCategory.MarketMaker
        ELSE IF ctx.isCex THEN WalletCategory.Exchange
        ELSE IF ctx.isDex THEN WalletCategory.Dex
        ELSE classifyWalletBehavioral(balance, balanceRaw, supplyRaw, history, ctx)

classifyWallet(balance, balanceRaw, supplyRaw, history, ctx) ==
    LET high == ctx.classificationConfidence = "high" /\ ctx.accountType # Undefined
    IN  IF high /\ ctx.accountType = AccountType.CEX
            THEN WalletCategory.Exchange
        ELSE IF high /\ ctx.accountType = AccountType.DEX
            THEN WalletCategory.Dex
        ELSE IF high /\ ctx.accountType \in
                    {AccountType.BRIDGE, AccountType.STAKING,
                     AccountType.PROGRAM_AUTHORITY, AccountType.VALIDATOR}
            THEN WalletCategory.Infrastructure
        ELSE IF high /\ ctx.accountType = AccountType.MARKET_MAKER
            THEN WalletCategory.MarketMaker
        ELSE IF ctx.isCex THEN WalletCategory.Exchange
        ELSE IF ctx.isDex THEN WalletCategory.Dex
        ELSE classifyWalletBehavioral(balance, balanceRaw, supplyRaw, history, ctx)

\* classifyTokenHolders, lines 696-716: account type from the metadata, then
\* the wallet category with the context built from that classification
holderContext(classification) ==
    MkCtx(classification.type, classification.confidence,
          classification.type = AccountType.DEX,
          classification.type = AccountType.CEX)

holderCategory(balanceRaw, supplyRaw, history, ownerMetadata) ==
    classifyWallet(balanceRaw, balanceRaw, supplyRaw, history,
                   holderContext(classifyAccount(ownerMetadata)))

----------------------------------------------------------------------------
(* Values of the variables an operation does not use                       *)

NoChain   == [supply |-> 0]
NoAcct    == NoMatch
NoHistory == MkHistory(NoDate, NoDate, -1, FALSE, 0, NoDate)
NoWIn     == [op |-> "", balanceRaw |-> 0, supplyRaw |-> 0, history |-> NoHistory,
              ctx |-> EmptyCtx, data |-> NullData]
NoWOut    == [category |-> "", pct |-> -1]
NoHist    == [page |-> 0]
NoCth     == [index |-> 0]
NoSplit   == [basis |-> ""]
NoLock    == [stage |-> ""]
NoReport  == [written |-> FALSE]
NoAnalysis == [running |-> ""]

AccountIdle == data = NullData /\ acct = NoAcct
WalletIdle  == wIn = NoWIn /\ wOut = NoWOut
HistoryIdle == hist = NoHist /\ histOut = NoHistory
ScanIdle    ==
    chain = NoChain /\ cth = NoCth /\ split = NoSplit /\ lock = NoLock /\ report = NoReport
    /\ analysis = NoAnalysis

----------------------------------------------------------------------------
(* classifyAccount applied to a metadata record                            *)

LabelInputs == {"", "Binance Hot Wallet", "Raydium Binance Pool", "Jupiter Aggregator",
                "Wormhole Portal", "Marinade", "Validator Node", "My Stake",
                "Solend", "Magic Eden", "Wintermute", "Token Program", "Alice"}
TagVocabulary == {"Exchange", "dex", "validator", "vault", "whale", "bot"}
TagInputs == UNION {[1..n -> TagVocabulary] : n \in 0..MaxTags}
DataInputs == {NullData} \cup {MkData(l, t) : l \in LabelInputs, t \in TagInputs}

InitAccount ==
    /\ pc = "classifyAccount"
    /\ data \in DataInputs
    /\ acct = NoAcct
    /\ WalletIdle /\ HistoryIdle /\ ScanIdle

ClassifyAccount ==
    /\ pc = "classifyAccount"
    /\ acct' = classifyAccount(data)
    /\ pc' = "classifyAccount.done"
    /\ UNCHANGED <<chain, data, wIn, wOut, hist, histOut, cth, split, lock, report, analysis>>

NextAccount == ClassifyAccount

SpecAccount == InitAccount /\ [][NextAccount]_vars

\* the checks of the cascade in the order the design gives them
CascadeChecks(label, tags) ==
    <<checkCEX(label, tags), checkDEX(label, tags), checkBridge(label, tags),
      checkStaking(label, tags), checkDeFi(label, tags), checkNFT(label, tags),
      checkMarketMaker(label, tags), checkProgram(label, tags),
      checkValidator(label, tags), checkBehaviorPatterns(label, tags)>>

HasKeyword(list, label) == \E i \in 1..Len(list) : Includes(toLowerCase(label), list[i])

\* C1: classifyAccount returns the type of the first check that matches, in the
\* order CEX, DEX, Bridge, Staking, DeFi, NFT, Market maker, Program, Validator,
\* behavioral tag, and UNKNOWN when none matches or the metadata is null; a label
\* with both a CEX keyword and a DEX keyword is classified CEX.
C1_FirstMatchWins ==
    pc = "classifyAccount.done" =>
        LET checks == CascadeChecks(toLowerCase(data.account_label),
                                    MapLower(data.account_tags))
            hits   == {i \in 1..Len(checks) : checks[i] # NoMatch}
        IN  /\ (data.isNull \/ hits = {}) => acct.type = AccountType.UNKNOWN
            /\ (~data.isNull /\ hits # {}) =>
                   acct.type = checks[CHOOSE i \in hits : \A j \in hits : i <= j].type
            /\ (~data.isNull /\ HasKeyword(CEX_LABELS, data.account_label)
                             /\ HasKeyword(DEX_LABELS, data.account_label))
                   => acct.type = AccountType.CEX

C1_Witness ==
    /\ pc = "classifyAccount.done"
    /\ ~data.isNull
    /\ HasKeyword(CEX_LABELS, data.account_label)
    /\ HasKeyword(DEX_LABELS, data.account_label)
    /\ acct.type = AccountType.CEX

HasTag(list, tags) == \E i \in 1..Len(tags) : ArrIncludes(list, toLowerCase(tags[i]))

\* C11: every result of classifyAccount other than UNKNOWN has confidence high,
\* except two cases of confidence medium: STAKING reached only through the word
\* "stake" or "validator" in the label (no staking-service label, no staking
\* tag), and WHALE or BOT_TRADER, which are reached through a behavioral tag.
C11_ConfidenceByMatch ==
    (pc = "classifyAccount.done" /\ acct.type # AccountType.UNKNOWN) =>
        LET genericStake ==
                /\ acct.type = AccountType.STAKING
                /\ ~HasKeyword(STAKING_LABELS, data.account_label)
                /\ ~HasTag(STAKING_TAGS, data.account_tags)
            behavioral == acct.type \in {AccountType.WHALE, AccountType.BOT_TRADER}
        IN  /\ acct.confidence = IF genericStake \/ behavioral THEN "medium" ELSE "high"
            /\ genericStake => \/ HasKeyword(<<"stake">>, data.account_label)
                                \/ HasKeyword(<<"validator">>, data.account_label)
            /\ behavioral => \/ HasTag(whaleIndicators, data.account_tags)
                              \/ HasTag(botIndicators, data.account_tags)

C11_Witness ==
    /\ pc = "classifyAccount.done"
    /\ data = MkData("My Stake", <<"whale">>)
    /\ acct.type = AccountType.STAKING
    /\ acct.confidence = "medium"

\* the types the cascade of classifyAccount names
CascadeTypes ==
    {AccountType.CEX, AccountType.DEX, AccountType.BRIDGE, AccountType.STAKING,
     AccountType.DEFI_PROTOCOL, AccountType.NFT_MARKETPLACE, AccountType.MARKET_MAKER,
     AccountType.PROGRAM_AUTHORITY, AccountType.VALIDATOR, AccountType.WHALE,
     AccountType.BOT_TRADER, AccountType.UNKNOWN}

\* metadata tagged 'validator', or labeled with 'validator' and not 'stake'
ValidatorMarked(d) ==
    /\ ~d.isNull
    /\ \/ HasTag(<<"validator">>, d.account_tags)
       \/ /\ HasKeyword(<<"validator">>, d.account_label)
          /\ ~HasKeyword(<<"stake">>, d.account_label)

\* C23: every account type the cascade names is reachable: for each of them
\* there is a metadata input for which classifyAccount returns that type; in
\* particular metadata tagged 'validator', or labeled with 'validator' and not
\* 'stake', can be classified VALIDATOR.
\* (The inputs are the metadata records the classifier is applied to; the
\* statement is read once a call has returned.)
C23_EveryTypeReachable ==
    pc = "classifyAccount.done" =>
        /\ \A t \in CascadeTypes : \E d \in DataInputs : classifyAccount(d).type = t
        /\ \E d \in DataInputs :
               ValidatorMarked(d) /\ classifyAccount(d).type = AccountType.VALIDATOR

----------------------------------------------------------------------------
(* classifyWallet, getSupplyPct and the per-holder pipeline on given inputs *)

SupplyInputs == {7, 100000}
BalanceInputs == {0, 1, 3, 7, 50, 100, 999, 1000, 3000, 4999, 5000, 6000, 100000}

HistoryInputs ==
    {MkHistory(Now - age, Now, n, sold, flow, IF sold THEN Now ELSE NoDate) :
        age \in {0, 31, 200}, n \in {0, 10, 60, 150, 1001},
        sold \in BOOLEAN, flow \in {0, 20000000 * Unit, -20000000 * Unit}}

CtxInputs ==
    {EmptyCtx, MkCtx(Undefined, Undefined, FALSE, TRUE), MkCtx(Undefined, Undefined, TRUE, FALSE),
     MkCtx(AccountType.DEFI_PROTOCOL, "high", FALSE, TRUE),
     MkCtx(AccountType.WHALE, "medium", TRUE, FALSE)}
    \cup {MkCtx(AccountType[k], c, FALSE, FALSE) :
             k \in DOMAIN AccountType, c \in {"high", "medium", "low"}}

HolderMetaInputs == {NullData, MkData("Binance Hot Wallet", <<"exchange">>),
                     MkData("", <<"CEX">>), MkData("Raydium Pool", <<>>),
                     MkData("", <<"whale">>)}

WalletCalls ==
    {[op |-> "classifyWallet", balanceRaw |-> b, supplyRaw |-> s, history |-> h,
      ctx |-> c, data |-> NullData] :
        b \in BalanceInputs, s \in SupplyInputs, h \in HistoryInputs, c \in CtxInputs}
HolderCalls ==
    {[op |-> "holderCategory", balanceRaw |-> b, supplyRaw |-> s, history |-> h,
      ctx |-> EmptyCtx, data |-> d] :
        b \in BalanceInputs, s \in SupplyInputs, h \in HistoryInputs, d \in HolderMetaInputs}
PctCalls ==
    {[op |-> "getSupplyPct", balanceRaw |-> b, supplyRaw |-> s, history |-> NoHistory,
      ctx |-> EmptyCtx, data |-> NullData] :
        b \in BalanceInputs, s \in SupplyInputs}

\* a balance is part of the supply
WellFormedCall(c) == c.balanceRaw <= c.supplyRaw

InitWallet ==
    /\ pc = "wallet"
    /\ wIn \in {c \in WalletCalls \cup HolderCalls \cup PctCalls : WellFormedCall(c)}
    /\ wOut = NoWOut
    /\ AccountIdle /\ HistoryIdle /\ ScanIdle

ClassifyWallet ==
    /\ pc = "wallet" /\ wIn.op = "classifyWallet"
    /\ wOut' = [category |-> classifyWallet(wIn.balanceRaw, wIn.balanceRaw, wIn.supplyRaw,
                                            wIn.history, wIn.ctx),
                pct |-> -1]
    /\ pc' = "wallet.done"
    /\ UNCHANGED <<chain, data, acct, wIn, hist, histOut, cth, split, lock, report, analysis>>

HolderCategory ==
    /\ pc = "wallet" /\ wIn.op = "holderCategory"
    /\ wOut' = [category |-> holderCategory(wIn.balanceRaw, wIn.supplyRaw,
                                            wIn.history, wIn.data),
                pct |-> -1]
    /\ pc' = "wallet.done"
    /\ UNCHANGED <<chain, data, acct, wIn, hist, histOut, cth, split, lock, report, analysis>>

GetSupplyPct ==
    /\ pc = "wallet" /\ wIn.op = "getSupplyPct"
    /\ wOut' = [category |-> "", pct |-> getSupplyPct(wIn.balanceRaw, wIn.supplyRaw)]
    /\ pc' = "wallet.done"
    /\ UNCHANGED <<chain, data, acct, wIn, hist, histOut, cth, split, lock, report, analysis>>

NextWallet == ClassifyWallet \/ HolderCategory \/ GetSupplyPct

SpecWallet == InitWallet /\ [][NextWallet]_vars

\* the category the behavioural rules alone give to a holder
BehaviorAlone(c) ==
    classifyWalletBehavioral(c.balanceRaw, c.balanceRaw, c.supplyRaw, c.history, EmptyCtx)

\* C2: with confidence high and account type CEX classifyWallet returns Exchange
\* for every balance, supply and history; a holder whose metadata classifies as
\* CEX is categorized Exchange whatever its balance and history.
C2_HighCexIsExchange ==
    pc = "wallet.done" =>
        /\ (wIn.op = "classifyWallet" /\ wIn.ctx.classificationConfidence = "high"
                /\ wIn.ctx.accountType = AccountType.CEX)
               => wOut.category = WalletCategory.Exchange
        /\ (wIn.op = "holderCategory" /\ classifyAccount(wIn.data).type = AccountType.CEX)
               => wOut.category = WalletCategory.Exchange

C2_Witness ==
    /\ pc = "wallet.done" /\ wIn.op = "holderCategory"
    /\ wIn.data = MkData("Binance Hot Wallet", <<"exchange">>)
    /\ BehaviorAlone(wIn) = WalletCategory.Foundation
    /\ wOut.category = WalletCategory.Exchange

\* the seven account types the high-confidence label rule decides
LabelDecided ==
    {AccountType.CEX, AccountType.DEX, AccountType.BRIDGE, AccountType.STAKING,
     AccountType.PROGRAM_AUTHORITY, AccountType.VALIDATOR, AccountType.MARKET_MAKER}

LabelRuleApplies(c) ==
    c.ctx.classificationConfidence = "high" /\ c.ctx.accountType \in LabelDecided

\* what the rules after the label rule give: legacy flags, then behaviour
LaterRules(c) ==
    IF c.ctx.isCex THEN WalletCategory.Exchange
    ELSE IF c.ctx.isDex THEN WalletCategory.Dex
    ELSE classifyWalletBehavioral(c.balanceRaw, c.balanceRaw, c.supplyRaw, c.history, c.ctx)

\* C12: with confidence high classifyWallet returns Dex for DEX, Infrastructure
\* for BRIDGE, STAKING, PROGRAM_AUTHORITY and VALIDATOR, and MarketMaker for
\* MARKET_MAKER, whatever the balance and history; for every other high-confidence
\* type and for every other confidence the label rule decides nothing and the
\* result is the one the later rules give.
C12_HighLabelSwitch ==
    (pc = "wallet.done" /\ wIn.op = "classifyWallet") =>
        LET t    == wIn.ctx.accountType
            high == wIn.ctx.classificationConfidence = "high"
        IN  /\ (high /\ t = AccountType.DEX) => wOut.category = WalletCategory.Dex
            /\ (high /\ t \in {AccountType.BRIDGE, AccountType.STAKING,
                                AccountType.PROGRAM_AUTHORITY, AccountType.VALIDATOR})
                   => wOut.category = WalletCategory.Infrastructure
            /\ (high /\ t = AccountType.MARKET_MAKER)
                   => wOut.category = WalletCategory.MarketMaker
            /\ ~LabelRuleApplies(wIn) => wOut.category = LaterRules(wIn)

C12_Witness ==
    /\ pc = "wallet.done" /\ wIn.op = "classifyWallet"
    /\ wIn.ctx = MkCtx(AccountType.DEFI_PROTOCOL, "high", FALSE, FALSE)
    /\ wIn.balanceRaw = 6000 /\ wIn.supplyRaw = 100000 /\ ~wIn.history.hasSold
    /\ wOut.category = WalletCategory.Foundation

\* the behavioral rules as the design lists them: <<condition, category>>, with
\* pct in hundredths of a percent
BehavioralRules(c) ==
    LET pct == getSupplyPct(c.balanceRaw, c.supplyRaw)
        h   == c.history
        age == Now - h.firstTx
    IN  << <<pct >= 500 /\ ~h.hasSold, WalletCategory.Foundation>>,
           <<pct >= 100 /\ pct < 500 /\ h.txCount < 20 /\ age > 180, WalletCategory.Investor>>,
           <<pct >= 10 /\ pct < 100 /\ ~h.hasSold /\ h.txCount < 50, WalletCategory.Team>>,
           <<h.txCount > 1000 \/ Abs(h.netFlow) > 10000000 * Unit, WalletCategory.Exchange>>,
           <<h.txCount > 100 /\ 10 * Abs(h.netFlow) < c.balanceRaw /\ age > 30,
             WalletCategory.MarketMaker>> >>

MatchingRules(c) == {i \in 1..Len(BehavioralRules(c)) : BehavioralRules(c)[i][1]}

NoLabelNoFlag(c) == ~LabelRuleApplies(c) /\ ~c.ctx.isCex /\ ~c.ctx.isDex

\* C13: when no label rule and no legacy flag applies, classifyWallet returns the
\* category of the first matching behavioral rule in the order Foundation,
\* Investor, Team, Exchange, MarketMaker.
C13_FirstBehavioralRule ==
    (pc = "wallet.done" /\ wIn.op = "classifyWallet" /\ NoLabelNoFlag(wIn)
         /\ MatchingRules(wIn) # {}) =>
        LET first == CHOOSE i \in MatchingRules(wIn) : \A j \in MatchingRules(wIn) : i <= j
        IN  wOut.category = BehavioralRules(wIn)[first][2]

C13_Witness ==
    /\ pc = "wallet.done" /\ wIn.op = "classifyWallet" /\ wIn.ctx = EmptyCtx
    /\ wIn.balanceRaw = 3000 /\ wIn.supplyRaw = 100000
    /\ wIn.history.txCount = 10 /\ Now - wIn.history.firstTx = 200
    /\ Abs(wIn.history.netFlow) > 10000000 * Unit
    /\ wOut.category = WalletCategory.Investor

\* C14: a medium-confidence label decides only when no behavioral rule matched:
\* then WHALE gives Investor if pct >= 0.5 and Community otherwise, INSTITUTIONAL
\* and BOT_TRADER give MarketMaker; in every remaining case the result is
\* Community; the result is always one of the categories.
C14_MediumLabelTiebreak ==
    (pc = "wallet.done" /\ wIn.op = "classifyWallet") =>
        LET t      == wIn.ctx.accountType
            medium == wIn.ctx.classificationConfidence = "medium"
            pct    == getSupplyPct(wIn.balanceRaw, wIn.supplyRaw)
        IN  /\ wOut.category \in {WalletCategory[k] : k \in DOMAIN WalletCategory}
            /\ (NoLabelNoFlag(wIn) /\ medium /\ MatchingRules(wIn) # {})
                   => wOut.category = BehaviorAlone(wIn)
            /\ (NoLabelNoFlag(wIn) /\ MatchingRules(wIn) = {}) =>
                   wOut.category =
                       IF medium /\ t = AccountType.WHALE
                       THEN (IF pct >= 50 THEN WalletCategory.Investor
                             ELSE WalletCategory.Community)
                       ELSE IF medium /\ t \in {AccountType.INSTITUTIONAL,
                                                 AccountType.BOT_TRADER}
                       THEN WalletCategory.MarketMaker
                       ELSE WalletCategory.Community

C14_Witness ==
    /\ pc = "wallet.done" /\ wIn.op = "classifyWallet"
    /\ wIn.ctx = MkCtx(AccountType.WHALE, "medium", FALSE, FALSE)
    /\ wIn.balanceRaw = 999 /\ wIn.supplyRaw = 100000
    /\ MatchingRules(wIn) = {}
    /\ wOut.category = WalletCategory.Investor

\* C10: getSupplyPct(s, s) is 100, getSupplyPct(0, s) is 0, and for 0 <= b <= s
\* the result is floor(b * 10000 / s) / 100 (results in hundredths of a percent).
C10_SupplyPctFloor ==
    (pc = "wallet.done" /\ wIn.op = "getSupplyPct") =>
        LET b == wIn.balanceRaw
            s == wIn.supplyRaw
        IN  /\ b = s => wOut.pct = 100 * 100
            /\ b = 0 => wOut.pct = 0
            /\ wOut.pct * s <= b * 10000
            /\ b * 10000 < (wOut.pct + 1) * s

C10_Witness ==
    /\ pc = "wallet.done" /\ wIn.op = "getSupplyPct"
    /\ wIn.balanceRaw = 3 /\ wIn.supplyRaw = 7
    /\ wOut.pct = 4285

----------------------------------------------------------------------------
(* SolanaLib.analyzeWalletHistory                                          *)

pageSize == 100
MaxTransfers == 1000

\* The transfer-history provider's answers for one owner.  The first `full`
\* pages hold pageSize records each; the page after them is the `tail`: a thrown
\* network error, a response with success = false, an empty page or a page
\* of ShortLen records.  The records of page p are newestAge + p - 1 days old
\* (sort_order desc) and move `amount` each (3 * amount for the inflows of a
\* mixed page).  A run of equal records is one group
\* [count, flow, amount, block_time].
MkFeed(full, tail, flow, newestAge, amount) ==
    [full |-> full, tail |-> tail, flow |-> flow, newestAge |-> newestAge,
     amount |-> amount]

Group(count, flow, amount, time) ==
    [count |-> count, flow |-> flow, amount |-> amount, block_time |-> time]

PageItems(feed, page, n) ==
    LET t == Now - (feed.newestAge + page - 1)
    IN  IF feed.flow = "mixed"
        THEN <<Group(n \div 2, "in", 3 * feed.amount, t),
               Group(n - (n \div 2), "out", feed.amount, t)>>
        ELSE <<Group(n, feed.flow, feed.amount, t)>>

\* axios.get(url, {headers, params}) for the given page
Response(feed, page) ==
    IF page <= feed.full THEN [kind |-> "ok", items |-> PageItems(feed, page, pageSize)]
    ELSE IF feed.tail = "error" THEN [kind |-> "error", items |-> <<>>]
    ELSE IF feed.tail = "nosuccess" THEN [kind |-> "nosuccess", items |-> <<>>]
    ELSE IF feed.tail = "short" THEN [kind |-> "ok", items |-> PageItems(feed, page, ShortLen)]
    ELSE [kind |-> "ok", items |-> <<>>]

\* number of records in a list of groups (Array.prototype.length)
RECURSIVE Count(_)
Count(groups) ==
    IF Len(groups) = 0 THEN 0
    ELSE groups[Len(groups)].count + Count(SubSeq(groups, 1, Len(groups) - 1))

\* the locals of analyzeWalletHistory before the loop
HistStart(feed) ==
    [feed |-> feed, page |-> 1, allTransfers |-> <<>>, requests |-> 0,
     lastLen |-> -1, lastKind |-> "none"]

\* the loop tested with <= instead of <
HistStep_LoopLeq(h) ==
    IF ~(Count(h.allTransfers) <= MaxTransfers)
    THEN [event |-> "exit", next |-> "after", h |-> h]
    ELSE LET r  == Response(h.feed, h.page)
             h1 == [h EXCEPT !.requests = @ + 1, !.lastKind = r.kind,
                             !.lastLen = Count(r.items)]
         IN  IF r.kind = "error" THEN [event |-> "throw", next |-> "catch", h |-> h1]
             ELSE IF r.kind = "nosuccess" THEN [event |-> "request", next |-> "after", h |-> h1]
             ELSE IF Count(r.items) = 0 THEN [event |-> "request", next |-> "after", h |-> h1]
             ELSE LET h2 == [h1 EXCEPT !.allTransfers = @ \o r.items]
                  IN  IF Count(r.items) < pageSize
                      THEN [event |-> "request", next |-> "after", h |-> h2]
                      ELSE [event |-> "request", next |-> "loop",
                            h |-> [h2 EXCEPT !.page = @ + 1]]

\* one turn of `while (allTransfers.length < 1000)`: the test, the request and
\* what the response does to the locals
HistStep(h) ==
    IF ~(Count(h.allTransfers) < MaxTransfers)
    THEN [event |-> "exit", next |-> "after", h |-> h]
    ELSE LET r  == Response(h.feed, h.page)
             h1 == [h EXCEPT !.requests = @ + 1, !.lastKind = r.kind,
                             !.lastLen = Count(r.items)]
         IN  IF r.kind = "error" THEN [event |-> "throw", next |-> "catch", h |-> h1]
             ELSE IF r.kind = "nosuccess" THEN [event |-> "request", next |-> "after", h |-> h1]
             ELSE IF Count(r.items) = 0 THEN [event |-> "request", next |-> "after", h |-> h1]
             ELSE LET h2 == [h1 EXCEPT !.allTransfers = @ \o r.items]
                  IN  IF Count(r.items) < pageSize
                      THEN [event |-> "request", next |-> "after", h |-> h2]
                      ELSE [event |-> "request", next |-> "loop",
                            h |-> [h2 EXCEPT !.page = @ + 1]]

ZeroSummary == MkHistory(Now, Now, 0, FALSE, 0, NoDate)

RECURSIVE SumFlow(_, _)
SumFlow(groups, flow) ==
    IF Len(groups) = 0 THEN 0
    ELSE LET g == groups[Len(groups)]
         IN  (IF g.flow = flow THEN g.count * g.amount ELSE 0)
             + SumFlow(SubSeq(groups, 1, Len(groups) - 1), flow)

\* hasSold is taken from the net flow instead of the outflow
Summarize_NetSeller(allTransfers) ==
    IF Count(allTransfers) = 0 THEN ZeroSummary
    ELSE LET times    == {allTransfers[i].block_time : i \in 1..Len(allTransfers)}
             outTimes == {allTransfers[i].block_time :
                             i \in {j \in 1..Len(allTransfers) : allTransfers[j].flow = "out"}}
             inflow   == SumFlow(allTransfers, "in")
             outflow  == SumFlow(allTransfers, "out")
         IN  MkHistory(CHOOSE t \in times : \A u \in times : t <= u,
                       CHOOSE t \in times : \A u \in times : t >= u,
                       Count(allTransfers),
                       outflow > inflow,
                       inflow - outflow,
                       IF outTimes = {} THEN NoDate
                       ELSE CHOOSE t \in outTimes : \A u \in outTimes : t >= u)

\* lines 861-903: the summary of the accumulated records
Summarize(allTransfers) ==
    IF Count(allTransfers) = 0 THEN ZeroSummary
    ELSE LET times    == {allTransfers[i].block_time : i \in 1..Len(allTransfers)}
             outTimes == {allTransfers[i].block_time :
                             i \in {j \in 1..Len(allTransfers) : allTransfers[j].flow = "out"}}
             inflow   == SumFlow(allTransfers, "in")
             outflow  == SumFlow(allTransfers, "out")
         IN  MkHistory(CHOOSE t \in times : \A u \in times : t <= u,
                       CHOOSE t \in times : \A u \in times : t >= u,
                       Count(allTransfers),
                       outflow > 0,
                       inflow - outflow,
                       IF outTimes = {} THEN NoDate
                       ELSE CHOOSE t \in outTimes : \A u \in outTimes : t >= u)

\* the whole call, for the callers that await it
RECURSIVE HistRun(_)
HistRun(h) ==
    LET st == HistStep(h)
    IN  IF st.next = "catch" THEN ZeroSummary
        ELSE IF st.next = "after" THEN Summarize(st.h.allTransfers)
        ELSE HistRun(st.h)

analyzeWalletHistory(feed) == HistRun(HistStart(feed))

FeedInputs ==
    {MkFeed(n, tail, flow, age, Unit) :
        n \in 0..MaxFullPages, tail \in {"error", "nosuccess", "empty", "short"},
        flow \in {"in", "out", "mixed"}, age \in {0, 200}}

InitHistory ==
    /\ pc = "hist.loop"
    /\ hist \in {HistStart(f) : f \in FeedInputs}
    /\ histOut = NoHistory
    /\ AccountIdle /\ WalletIdle /\ ScanIdle

\* a page is requested and answered
HistRequest ==
    /\ pc = "hist.loop"
    /\ HistStep(hist).event = "request"
    /\ hist' = HistStep(hist).h
    /\ pc' = IF HistStep(hist).next = "loop" THEN "hist.loop" ELSE "hist.after"
    /\ UNCHANGED <<chain, data, acct, wIn, wOut, histOut, cth, split, lock, report, analysis>>

\* the request throws: the catch block returns the zero-value summary
HistRequestThrows ==
    /\ pc = "hist.loop"
    /\ HistStep(hist).event = "throw"
    /\ hist' = HistStep(hist).h
    /\ histOut' = ZeroSummary
    /\ pc' = "hist.done"
    /\ UNCHANGED <<chain, data, acct, wIn, wOut, cth, split, lock, report, analysis>>

\* the loop condition fails
HistLoopExit ==
    /\ pc = "hist.loop"
    /\ HistStep(hist).event = "exit"
    /\ pc' = "hist.after"
    /\ UNCHANGED <<chain, data, acct, wIn, wOut, hist, histOut, cth, split, lock, report, analysis>>

HistReturn ==
    /\ pc = "hist.after"
    /\ histOut' = Summarize(hist.allTransfers)
    /\ pc' = "hist.done"
    /\ UNCHANGED <<chain, data, acct, wIn, wOut, hist, cth, split, lock, report, analysis>>

NextHistory == HistRequest \/ HistRequestThrows \/ HistLoopExit \/ HistReturn

SpecHistory == InitHistory /\ [][NextHistory]_vars

\* C8: a page is requested only while every earlier page was full and fewer than
\* 1,000 records are accumulated; so at most 10 pages are requested and at most
\* 1,000 records accumulated.
C8_PaginationBounded ==
    /\ [](pc \in {"hist.loop", "hist.after", "hist.done"} =>
            /\ hist.requests <= MaxTransfers \div pageSize
            /\ Count(hist.allTransfers) <= MaxTransfers)
    /\ [][hist'.requests > hist.requests =>
            /\ hist.requests = 0 \/ hist.lastLen = pageSize
            /\ hist.lastKind \in {"none", "ok"}
            /\ Count(hist.allTransfers) < MaxTransfers]_vars

C8_Witness ==
    /\ pc = "hist.done"
    /\ hist.requests = MaxTransfers \div pageSize
    /\ Count(hist.allTransfers) = MaxTransfers
    /\ histOut.txCount = MaxTransfers

\* C9: whenever a page request fails, by a thrown error or by a non-success
\* response, on whichever page, the call returns the zero-value summary.
C9_AnyFailureGivesZero ==
    (pc = "hist.done" /\ hist.lastKind \in {"error", "nosuccess"}) => histOut = ZeroSummary

\* C30 (as claimed): in every summary returned by analyzeWalletHistory, hasSold
\* is true iff lastOutflowAt is non-null, firstTx <= lastTx, and txCount equals
\* the number of accumulated records.
C30_SummaryInvariants ==
    pc = "hist.done" =>
        /\ histOut.hasSold <=> histOut.lastOutflowAt # NoDate
        /\ histOut.firstTx <= histOut.lastTx
        /\ histOut.txCount = Count(hist.allTransfers)

\* C30 (amended): in every summary returned by analyzeWalletHistory, hasSold is
\* true iff lastOutflowAt is non-null and firstTx <= lastTx; txCount equals the
\* number of accumulated records unless a page request threw, and then the
\* summary is the zero-value summary (txCount 0) whatever was accumulated.
C30_SummaryInvariantsAmended ==
    pc = "hist.done" =>
        /\ histOut.hasSold <=> histOut.lastOutflowAt # NoDate
        /\ histOut.firstTx <= histOut.lastTx
        /\ IF hist.lastKind = "error"
           THEN histOut = ZeroSummary
           ELSE histOut.txCount = Count(hist.allTransfers)

C30_Witness ==
    /\ pc = "hist.done"
    /\ hist.lastKind = "ok" /\ hist.feed.flow = "mixed"
    /\ histOut.hasSold /\ histOut.lastOutflowAt # NoDate
    /\ histOut.netFlow > 0
    /\ histOut.firstTx < histOut.lastTx
    /\ histOut.txCount = Count(hist.allTransfers)
    /\ histOut.txCount > pageSize

\* the category the supply percentage alone gives (pct in hundredths of a percent)
ByPctAlone(pct) ==
    IF pct >= 500 THEN WalletCategory.Foundation
    ELSE IF pct >= 10 /\ pct < 100 THEN WalletCategory.Team
    ELSE WalletCategory.Community

\* C29: when the transfer-history provider fails for a holder that has no
\* label-derived context (null metadata), the holder's category depends only on
\* its supply percentage: Foundation if pct >= 5, Team if 0.1 <= pct < 1,
\* Community otherwise; such a holder is never categorized Investor, Exchange
\* or MarketMaker.
C29_FailedHistoryByPctOnly ==
    (pc = "hist.done" /\ hist.lastKind \in {"error", "nosuccess"}) =>
        \A supplyRaw \in SupplyInputs, balanceRaw \in BalanceInputs :
            balanceRaw <= supplyRaw =>
                holderCategory(balanceRaw, supplyRaw, histOut, NullData)
                    = ByPctAlone(getSupplyPct(balanceRaw, supplyRaw))

----------------------------------------------------------------------------
(* The chain and the off-chain providers                                   *)

\* A mint and its token accounts belong to one token program, `mintProgram`.
\* The supply of a mint is the sum of the balances of its token accounts.
TokenAccount(address, owner, amount, state) ==
    [address |-> address, owner |-> owner, amount |-> amount, state |-> state]

\* (the sum of a list is taken by halves, to keep the evaluation shallow)
RECURSIVE SumAmounts(_)
SumAmounts(accounts) ==
    IF Len(accounts) = 0 THEN 0
    ELSE IF Len(accounts) = 1 THEN accounts[1].amount
    ELSE LET half == Len(accounts) \div 2
         IN  SumAmounts(SubSeq(accounts, 1, half))
             + SumAmounts(SubSeq(accounts, half + 1, Len(accounts)))

MkChain(mintProgram, accounts, meta, feed) ==
    [supply |-> SumAmounts(accounts), mintProgram |-> mintProgram,
     accounts |-> accounts, meta |-> meta, feed |-> feed]

Owners == {"o1", "o2"}

TOKEN_PROGRAM_ID == "token"
EXTRA_TOKEN_PROGRAM_IDS == <<"token2022">>

\* getMintInfo: supply is Number(mint.supply) / 10 ** decimals, raw is the Mint
getMintInfo(c) == [supply |-> c.supply, rawSupply |-> c.supply]

\* getMint(connection, mintKey) is called without a program id, so it takes
\* TOKEN_PROGRAM_ID and rejects a mint account that another program owns
getMintResolves(c) == c.mintProgram = TOKEN_PROGRAM_ID

\* connection.getParsedProgramAccounts(pid, filters for the mint)
getParsedProgramAccounts(c, pid) == IF c.mintProgram = pid THEN c.accounts ELSE <<>>

\* Array.prototype.sort with (a, b) => b.amount - a.amount, which is stable:
\* an element comes after the greater ones and after the equal ones before it
SortDesc(seq) ==
    LET place == [i \in 1..Len(seq) |->
                     Cardinality({j \in 1..Len(seq) :
                                     \/ seq[j].amount > seq[i].amount
                                     \/ seq[j].amount = seq[i].amount /\ j < i}) + 1]
        from  == [k \in 1..Len(seq) |-> CHOOSE i \in 1..Len(seq) : place[i] = k]
    IN  [k \in 1..Len(seq) |-> seq[from[k]]]

\* connection.getTokenLargestAccounts: the TopN largest token accounts of the mint
getTokenLargestAccounts(c) ==
    LET sorted == SortDesc(c.accounts)
    IN  SubSeq(sorted, 1, IF Len(sorted) < TopN THEN Len(sorted) ELSE TopN)

\* getTopHolders: the non-empty ones, each with its owner; <<>> stands for null
\* (every caller treats null and the empty list alike)
getTopHolders(c) ==
    LET nonEmpty == SelectSeq(getTokenLargestAccounts(c), LAMBDA e : e.amount > 0)
    IN  [i \in 1..Len(nonEmpty) |->
            [tokenAccount |-> nonEmpty[i].address,
             walletAddress |-> nonEmpty[i].owner,
             rawBalance |-> nonEmpty[i].amount,
             balance |-> nonEmpty[i].amount]]

\* getAccountMetadata: the owner's metadata, null when there is none or the
\* request fails
getAccountMetadata(c, address) == c.meta[address]

----------------------------------------------------------------------------
(* SolanaLib.classifyTokenHolders                                          *)

\* the two ages are compared with > instead of >=
classifyHolder_StrictAge(c, holder, supplyRaw) ==
    LET walletAddress  == holder.walletAddress
        history        == analyzeWalletHistory(c.feed[walletAddress])
        ownerMetadata  == getAccountMetadata(c, walletAddress)
        classification == classifyAccount(ownerMetadata)
        category       == classifyWallet(holder.balance, holder.rawBalance, supplyRaw,
                                         history, holderContext(classification))
        ageDays        == Now - history.firstTx
    IN  [address |-> walletAddress,
         category |-> category,
         balance |-> holder.balance,
         transactionCount |-> history.txCount,
         hasSold |-> history.hasSold,
         isDiamondHand |-> ~history.hasSold /\ ageDays > 90,
         isLongTermNoOutflow180 |->
             /\ ageDays > 180
             /\ (history.lastOutflowAt = NoDate \/ Now - history.lastOutflowAt > 180),
         metadata |-> [label |-> ownerMetadata.account_label,
                       tokenAccount |-> holder.tokenAccount,
                       accountType |-> classification.type,
                       accountSubType |-> classification.subType,
                       classificationConfidence |-> classification.confidence]]

\* lines 678-763: the WalletClassification of one holder
classifyHolder(c, holder, supplyRaw) ==
    LET walletAddress  == holder.walletAddress
        history        == analyzeWalletHistory(c.feed[walletAddress])
        ownerMetadata  == getAccountMetadata(c, walletAddress)
        classification == classifyAccount(ownerMetadata)
        category       == classifyWallet(holder.balance, holder.rawBalance, supplyRaw,
                                         history, holderContext(classification))
        ageDays        == Now - history.firstTx
    IN  [address |-> walletAddress,
         category |-> category,
         balance |-> holder.balance,
         transactionCount |-> history.txCount,
         hasSold |-> history.hasSold,
         isDiamondHand |-> ~history.hasSold /\ ageDays >= 90,
         isLongTermNoOutflow180 |->
             /\ ageDays >= 180
             /\ (history.lastOutflowAt = NoDate \/ Now - history.lastOutflowAt >= 180),
         metadata |-> [label |-> ownerMetadata.account_label,
                       tokenAccount |-> holder.tokenAccount,
                       accountType |-> classification.type,
                       accountSubType |-> classification.subType,
                       classificationConfidence |-> classification.confidence]]

\* the locals of classifyTokenHolders once the holders are fetched
CthStart(holders, supplyRaw) ==
    [index |-> 1, holders |-> holders, supplyRaw |-> supplyRaw,
     classifications |-> <<>>, skipped |-> 0, thrown |-> {}, result |-> <<>>,
     holdersFetched |-> FALSE]

----------------------------------------------------------------------------
(* SolanaLib.getSupplySplitTop20                                           *)

\* the venue's entry is set to the last balance instead of added to
AddTo_Overwrite(breakdown, key, balance) ==
    [k \in DOMAIN breakdown \cup {key} |-> IF k = key THEN balance ELSE breakdown[k]]

\* breakdownCex[key] = (breakdownCex[key] || 0) + balance
AddTo(breakdown, key, balance) ==
    IF key \in DOMAIN breakdown
    THEN [breakdown EXCEPT ![key] = @ + balance]
    ELSE [k \in DOMAIN breakdown \cup {key} |->
             IF k = key THEN balance ELSE breakdown[k]]

\* a || b || c on strings: the first that is neither empty nor undefined
OrElse(a, b, c) ==
    IF a # "" /\ a # Undefined THEN a
    ELSE IF b # "" /\ b # Undefined THEN b
    ELSE c

SplitStart(basis, totalSupply) ==
    [basis |-> basis, totalSupply |-> totalSupply, cex |-> 0, dex |-> 0,
     onchainNonCexDex |-> 0, unknownRemainder |-> 0,
     breakdownByExchange |-> <<>>, dexName |-> Undefined, largestDexBalance |-> 0,
     metadataChecks |-> 0, lookups |-> <<>>, queried |-> <<>>,
     ownersSorted |-> <<>>, index |-> 1]

AddCex(sp, key, balance) ==
    [sp EXCEPT !.cex = @ + balance,
               !.breakdownByExchange = AddTo(@, key, balance)]

AddDex(sp, name, balance) ==
    IF balance > sp.largestDexBalance
    THEN [sp EXCEPT !.dex = @ + balance, !.largestDexBalance = balance, !.dexName = name]
    ELSE [sp EXCEPT !.dex = @ + balance]

AddOnchain(sp, balance) == [sp EXCEPT !.onchainNonCexDex = @ + balance]

\* behavioural exchanges and DEXes are left in the on-chain bucket
Top20Bucket_NoBehavioral(sp, cl) ==
    LET label == toLowerCase(cl.metadata.label)
        subType == cl.metadata.accountSubType
        confidence == cl.metadata.classificationConfidence
    IN  IF cl.metadata.accountType = AccountType.CEX
        THEN LET cexKey == OrElse(label, subType, "exchange (unknown)")
             IN  AddCex(sp, IF confidence # "high"
                            THEN cexKey \o " [" \o confidence \o "]" ELSE cexKey,
                        cl.balance)
        ELSE IF cl.metadata.accountType = AccountType.DEX
        THEN AddDex(sp, OrElse(label, subType, "dex (unknown)"), cl.balance)
        ELSE AddOnchain(sp, cl.balance)

\* lines 1042-1088: the body of the loop over the classifications
Top20Bucket(sp, cl) ==
    LET label == toLowerCase(cl.metadata.label)
        subType == cl.metadata.accountSubType
        confidence == cl.metadata.classificationConfidence
    IN  IF cl.metadata.accountType = AccountType.CEX
        THEN LET cexKey == OrElse(label, subType, "exchange (unknown)")
             IN  AddCex(sp, IF confidence # "high"
                            THEN cexKey \o " [" \o confidence \o "]" ELSE cexKey,
                        cl.balance)
        ELSE IF cl.metadata.accountType = AccountType.DEX
        THEN AddDex(sp, OrElse(label, subType, "dex (unknown)"), cl.balance)
        ELSE IF cl.metadata.accountType \in
                    {AccountType.BRIDGE, AccountType.STAKING, AccountType.VALIDATOR,
                     AccountType.PROGRAM_AUTHORITY, AccountType.UNKNOWN}
        THEN IF cl.category = WalletCategory.Exchange
             THEN AddCex(sp, "exchange (behavioral)", cl.balance)
             ELSE IF cl.category = WalletCategory.Dex
             THEN AddDex(sp, "dex (behavioral)", cl.balance)
             ELSE AddOnchain(sp, cl.balance)
        ELSE AddOnchain(sp, cl.balance)

RECURSIVE Top20Loop(_, _)
Top20Loop(sp, classifications) ==
    IF Len(classifications) = 0 THEN sp
    ELSE Top20Bucket(Top20Loop(sp, SubSeq(classifications, 1, Len(classifications) - 1)),
                     classifications[Len(classifications)])

\* the remainder without the clamp at zero and taken before the DEX bucket
Top20Result_Mut(sp0, classifications) ==
    LET sp == Top20Loop(sp0, classifications)
    IN  [sp EXCEPT !.unknownRemainder = sp.totalSupply - (sp.cex + sp.onchainNonCexDex)]

\* lines 1032-1113: the buckets, then the remainder
Top20Result(sp0, classifications) ==
    LET sp == Top20Loop(sp0, classifications)
        covered == sp.cex + sp.dex + sp.onchainNonCexDex
    IN  [sp EXCEPT !.unknownRemainder = Max(sp.totalSupply - covered, 0)]

----------------------------------------------------------------------------
(* A run of getSupplySplitTop20, which awaits classifyTokenHolders         *)

\* netFlow of a ShortLen-record page just above the 10,000,000 token rule
BigAmount == (10000000 * Unit) \div ShortLen + 1

HolderFeeds == {MkFeed(0, "error", "in", 0, Unit),
                MkFeed(0, "short", "in", 200, Unit),
                MkFeed(0, "short", "out", 0, BigAmount),
                MkFeed(0, "short", "in", 90, Unit),
                MkFeed(0, "short", "mixed", 180, Unit)}

HolderMeta == {NullData, MkData("Binance Hot Wallet", <<"exchange">>),
               MkData("Raydium Pool", <<>>), MkData("My Stake", <<>>)}

AccountLists(states) ==
    {<<TokenAccount("a1", o[1], m[1], st[1]), TokenAccount("a2", o[2], m[2], st[2]),
       TokenAccount("a3", o[3], m[3], st[3])>> :
        o \in {<<"o1", "o2", "o1">>, <<"o1", "o1", "o2">>},
        m \in {<<6000, 50, 900>>, <<50, 6000, 0>>, <<900, 900, 50>>, <<0, 0, 0>>,
               <<100000, 5, 900>>},
        st \in states}

NoFeeds == [o \in Owners |-> MkFeed(0, "empty", "in", 0, Unit)]

InitTop20 ==
    /\ pc = "top20.start"
    /\ chain \in {MkChain("token", a, meta, feed) :
                     a \in AccountLists({<<"initialized", "initialized", "initialized">>}),
                     meta \in [Owners -> HolderMeta], feed \in [Owners -> HolderFeeds]}
    /\ cth = NoCth /\ split = NoSplit /\ lock = NoLock /\ report = NoReport
    /\ analysis = NoAnalysis
    /\ AccountIdle /\ WalletIdle /\ HistoryIdle

Top20GetMintInfo ==
    /\ pc = "top20.start"
    /\ getMintResolves(chain)
    /\ split' = SplitStart("top20", getMintInfo(chain).supply)
    /\ pc' = "cth.start"
    /\ UNCHANGED <<chain, data, acct, wIn, wOut, hist, histOut, cth, lock, report, analysis>>

CthGetMintInfo ==
    /\ pc = "cth.start"
    /\ getMintResolves(chain)
    /\ cth' = CthStart(<<>>, getMintInfo(chain).rawSupply)
    /\ pc' = "cth.holders"
    /\ UNCHANGED <<chain, data, acct, wIn, wOut, hist, histOut, split, lock, report, analysis>>

\* getMintInfo or getTopHolders rejects: classifyTokenHolders rethrows and
\* getSupplySplitTop20 does not catch
ChainQueryFails ==
    /\ pc \in {"top20.start", "cth.start", "cth.holders"}
    /\ pc' = "top20.thrown"
    /\ UNCHANGED <<chain, data, acct, wIn, wOut, hist, histOut, cth, split, lock, report, analysis>>

\* an empty holder set is treated as a failure
CthGetTopHolders_EmptyThrows ==
    /\ pc = "cth.holders"
    /\ cth' = [CthStart(getTopHolders(chain), cth.supplyRaw) EXCEPT !.holdersFetched = TRUE]
    /\ pc' = IF Len(getTopHolders(chain)) = 0 THEN "top20.thrown" ELSE "cth.holder"
    /\ UNCHANGED <<chain, data, acct, wIn, wOut, hist, histOut, split, lock, report, analysis>>

CthGetTopHolders ==
    /\ pc = "cth.holders"
    /\ cth' = [CthStart(getTopHolders(chain), cth.supplyRaw) EXCEPT !.holdersFetched = TRUE]
    /\ pc' = IF Len(getTopHolders(chain)) = 0 THEN "top20.aggregate" ELSE "cth.holder"
    /\ UNCHANGED <<chain, data, acct, wIn, wOut, hist, histOut, split, lock, report, analysis>>

AfterHolder(c) == IF c.index + 1 > Len(c.holders) THEN "cth.return" ELSE "cth.holder"

\* one iteration that reaches classifications.push
CthHolder ==
    /\ pc = "cth.holder"
    /\ cth' = [cth EXCEPT !.classifications =
                   Append(@, classifyHolder(chain, cth.holders[cth.index], cth.supplyRaw))]
    /\ pc' = "cth.delay"
    /\ UNCHANGED <<chain, data, acct, wIn, wOut, hist, histOut, split, lock, report, analysis>>

\* the error of one holder leaves the loop and the function
CthHolderThrows_Abort ==
    /\ pc = "cth.holder"
    /\ cth' = [cth EXCEPT !.skipped = @ + 1, !.thrown = @ \cup {cth.index}]
    /\ pc' = "top20.thrown"
    /\ UNCHANGED <<chain, data, acct, wIn, wOut, hist, histOut, split, lock, report, analysis>>

\* one iteration that throws: caught, the holder is skipped (`continue`)
CthHolderThrows ==
    /\ pc = "cth.holder"
    /\ cth' = [cth EXCEPT !.index = @ + 1, !.skipped = @ + 1,
                          !.thrown = @ \cup {cth.index}]
    /\ pc' = AfterHolder(cth)
    /\ UNCHANGED <<chain, data, acct, wIn, wOut, hist, histOut, split, lock, report, analysis>>

\* the rate-limiting wait that ends an iteration
CthDelay ==
    /\ pc = "cth.delay"
    /\ cth' = [cth EXCEPT !.index = @ + 1]
    /\ pc' = AfterHolder(cth)
    /\ UNCHANGED <<chain, data, acct, wIn, wOut, hist, histOut, split, lock, report, analysis>>

CthReturn ==
    /\ pc = "cth.return"
    /\ cth' = [cth EXCEPT !.result = cth.classifications]
    /\ pc' = "top20.aggregate"
    /\ UNCHANGED <<chain, data, acct, wIn, wOut, hist, histOut, split, lock, report, analysis>>

Top20Aggregate ==
    /\ pc = "top20.aggregate"
    /\ split' = Top20Result(split, cth.result)
    /\ pc' = "top20.done"
    /\ UNCHANGED <<chain, data, acct, wIn, wOut, hist, histOut, cth, lock, report, analysis>>

NextTop20 ==
    \/ Top20GetMintInfo \/ CthGetMintInfo \/ ChainQueryFails \/ CthGetTopHolders
    \/ CthHolder \/ CthHolderThrows \/ CthDelay \/ CthReturn \/ Top20Aggregate

SpecTop20 == InitTop20 /\ [][NextTop20]_vars

\* what is left of the loop over the holders: two steps for each holder not
\* yet reached, one less once the holder's classification is pushed
LoopRank(p, c) ==
    IF p = "cth.holder" THEN 2 * (Len(c.holders) - c.index) + 2
    ELSE IF p = "cth.delay" THEN 2 * (Len(c.holders) - c.index) + 1
    ELSE 0

\* the holders whose iteration did not throw, in the holders' order
KeptHolders(c) ==
    SelectSeq(c.holders, LAMBDA h :
        \A i \in c.thrown : c.holders[i].tokenAccount # h.tokenAccount)

\* C16: in classifyTokenHolders an error raised while one holder is processed is
\* caught and that holder is skipped: the call still returns, every other holder
\* is classified, and the returned list keeps the holders' order.
\* (every step of the loop stays in the function and shortens what is left
\* of the loop, so the loop ends at the return.)
C16_HolderErrorSkipsHolder ==
    /\ [][(pc = "cth.holder" /\ cth'.skipped > cth.skipped) =>
              /\ pc' \in {"cth.holder", "cth.return"}
              /\ cth'.classifications = cth.classifications]_vars
    /\ [][(pc \in {"cth.holder", "cth.delay"}) =>
              /\ pc' \in {"cth.holder", "cth.delay", "cth.return"}
              /\ LoopRank(pc', cth') < LoopRank(pc, cth)]_vars
    /\ [](pc \in {"top20.aggregate", "top20.done"} =>
              cth.result = [k \in 1..Len(KeptHolders(cth)) |->
                               classifyHolder(chain, KeptHolders(cth)[k], cth.supplyRaw)])

C16_Witness ==
    /\ pc = "top20.done"
    /\ Len(cth.holders) = 2 /\ cth.thrown = {1}
    /\ Len(cth.result) = 1
    /\ cth.result[1].address = cth.holders[2].walletAddress

\* C25: within classifyTokenHolders holders are processed strictly one at a
\* time (an iteration handles the holder at `index` and pushes at most its one
\* classification), and every iteration, including one that ends in a
\* per-holder error, is followed by the fixed rate-limiting delay before the
\* next holder starts: the loop moves on to the next holder from the delay only.
C25_DelayAfterEveryHolder ==
    [][(pc \in {"cth.holder", "cth.delay"}) =>
          /\ Len(cth'.classifications) <= Len(cth.classifications) + 1
          /\ cth'.index \in {cth.index, cth.index + 1}
          /\ (cth'.index = cth.index + 1) => pc = "cth.delay"]_vars

\* the classifications pushed so far
ClassifiedSoFar ==
    IF pc \in {"cth.holder", "cth.delay", "cth.return", "top20.aggregate", "top20.done"}
    THEN cth.classifications ELSE <<>>

\* C19: for each classified holder isDiamondHand is true iff the holder never
\* sold and its age since the first transaction is at least 90 days, and
\* isLongTermNoOutflow180 is true iff that age is at least 180 days and either no
\* outflow was observed or the last outflow is at least 180 days old; a holder
\* whose history is the zero-value summary has both flags false.
C19_HolderFlags ==
    \A i \in 1..Len(ClassifiedSoFar) :
        LET cl  == ClassifiedSoFar[i]
            h   == analyzeWalletHistory(chain.feed[cl.address])
            age == Now - h.firstTx
        IN  /\ cl.isDiamondHand <=> (~h.hasSold /\ age >= 90)
            /\ cl.isLongTermNoOutflow180 <=>
                   (age >= 180 /\ (h.lastOutflowAt = NoDate \/ Now - h.lastOutflowAt >= 180))
            /\ h = ZeroSummary => (~cl.isDiamondHand /\ ~cl.isLongTermNoOutflow180)

C19_Witness ==
    /\ pc = "top20.done" /\ Len(cth.result) = 2
    /\ \E i, j \in 1..2 :
          /\ chain.feed[cth.result[i].address] = MkFeed(0, "short", "in", 90, Unit)
          /\ cth.result[i].isDiamondHand /\ ~cth.result[i].isLongTermNoOutflow180
          /\ chain.feed[cth.result[j].address] = MkFeed(0, "short", "mixed", 180, Unit)
          /\ ~cth.result[j].isDiamondHand /\ cth.result[j].isLongTermNoOutflow180

\* the mint has no token account with a non-zero balance
NoBalances == \A i \in 1..Len(chain.accounts) : chain.accounts[i].amount = 0

\* C18: when the mint has no token account with a non-zero balance,
\* classifyTokenHolders returns an empty list without throwing, and
\* getSupplySplitTop20 then reports cex = dex = onchain = 0 and
\* unknownRemainder = totalSupply.
C18_NoHoldersEmptySplit ==
    /\ [][(pc = "cth.holders" /\ NoBalances /\ cth'.holdersFetched) =>
              (pc' = "top20.aggregate" /\ cth'.result = <<>>)]_vars
    /\ []((pc = "top20.done" /\ NoBalances) =>
              /\ split.cex = 0 /\ split.dex = 0 /\ split.onchainNonCexDex = 0
              /\ split.unknownRemainder = split.totalSupply)

C18_Witness ==
    /\ pc = "top20.done" /\ NoBalances
    /\ cth.holders = <<>> /\ cth.result = <<>>
    /\ split.cex + split.dex + split.onchainNonCexDex = 0
    /\ split.unknownRemainder = split.totalSupply

\* C3: the result of getSupplySplitTop20 satisfies
\* cex + dex + onchainNonCexDex + unknownRemainder = totalSupply and
\* unknownRemainder >= 0.
C3_Top20SumsToSupply ==
    pc = "top20.done" =>
        /\ split.cex + split.dex + split.onchainNonCexDex + split.unknownRemainder
               = split.totalSupply
        /\ split.unknownRemainder >= 0

C3_Witness ==
    /\ pc = "top20.done"
    /\ split.cex > 0 /\ split.dex > 0
    /\ split.unknownRemainder > 0
    /\ split.totalSupply = chain.supply

----------------------------------------------------------------------------
(* SolanaLib.getSupplySplitFull                                            *)

MAX_METADATA_CHECKS == 300

\* an owner's entry is overwritten instead of added to
PerOwner_Overwrite(accounts) ==
    LET owners == {accounts[i].owner : i \in {j \in 1..Len(accounts) : accounts[j].amount > 0}}
        last(o) == CHOOSE i \in 1..Len(accounts) :
                       /\ accounts[i].owner = o /\ accounts[i].amount > 0
                       /\ \A j \in 1..Len(accounts) :
                              (accounts[j].owner = o /\ accounts[j].amount > 0) => j <= i
        firsts == SelectSeq([i \in 1..Len(accounts) |-> i],
                            LAMBDA i : accounts[i].amount > 0
                                       /\ \A j \in 1..(i - 1) :
                                              ~(accounts[j].owner = accounts[i].owner
                                                /\ accounts[j].amount > 0))
    IN  [k \in 1..Len(firsts) |->
            [owner |-> accounts[firsts[k]].owner,
             amount |-> accounts[last(accounts[firsts[k]].owner)].amount]]

\* perOwner.set(owner, (perOwner.get(owner) || 0) + ui) over the accounts with
\* ui > 0; a Map keeps its keys in insertion order
\* (the list is taken by halves: the map of the first half, then the entries
\* of the second half added to it or appended in their order)
RECURSIVE PerOwner(_)
PerOwner(accounts) ==
    IF Len(accounts) = 0 THEN <<>>
    ELSE IF Len(accounts) = 1
    THEN (IF accounts[1].amount <= 0 THEN <<>>
          ELSE <<[owner |-> accounts[1].owner, amount |-> accounts[1].amount]>>)
    ELSE LET half   == Len(accounts) \div 2
             before == PerOwner(SubSeq(accounts, 1, half))
             after  == PerOwner(SubSeq(accounts, half + 1, Len(accounts)))
             later(o) == {j \in 1..Len(after) : after[j].owner = o}
         IN  [i \in 1..Len(before) |->
                 IF later(before[i].owner) = {} THEN before[i]
                 ELSE [before[i] EXCEPT !.amount =
                          @ + after[CHOOSE j \in later(before[i].owner) : TRUE].amount]]
             \o SelectSeq(after, LAMBDA e :
                    \A i \in 1..Len(before) : before[i].owner # e.owner)

\* balance >= totalSupply * 0.0001
AtLeastMinBalance(balance, totalSupply) == balance * 10000 >= totalSupply

\* the number of lookups is not capped
FullBucket_NoCap(c, sp, entry) ==
    LET shouldCheckMetadata ==
            AtLeastMinBalance(entry.amount, sp.totalSupply)
        ownerMetadata == IF shouldCheckMetadata
                         THEN getAccountMetadata(c, entry.owner) ELSE NullData
        classification == classifyAccount(ownerMetadata)
        sp1 == [sp EXCEPT !.metadataChecks = IF shouldCheckMetadata THEN @ + 1 ELSE @,
                          !.lookups = IF shouldCheckMetadata THEN Append(@, entry) ELSE @,
                          !.index = @ + 1]
        label == toLowerCase(ownerMetadata.account_label)
    IN  IF classification.type = AccountType.CEX
        THEN LET breakdownKey == OrElse(label, classification.subType, "exchange (unknown)")
             IN  AddCex(sp1, IF classification.confidence # "high"
                             THEN breakdownKey \o " [" \o classification.confidence \o "]"
                             ELSE breakdownKey,
                        entry.amount)
        ELSE IF classification.type = AccountType.DEX
        THEN AddDex(sp1, OrElse(label, classification.subType, "dex (unknown)"), entry.amount)
        ELSE AddOnchain(sp1, entry.amount)

\* lines 1382-1433: one iteration of the loop over ownersSorted
FullBucket(c, sp, entry) ==
    LET shouldCheckMetadata ==
            /\ sp.metadataChecks < MAX_METADATA_CHECKS
            /\ AtLeastMinBalance(entry.amount, sp.totalSupply)
        ownerMetadata == IF shouldCheckMetadata
                         THEN getAccountMetadata(c, entry.owner) ELSE NullData
        classification == classifyAccount(ownerMetadata)
        sp1 == [sp EXCEPT !.metadataChecks = IF shouldCheckMetadata THEN @ + 1 ELSE @,
                          !.lookups = IF shouldCheckMetadata THEN Append(@, entry) ELSE @,
                          !.index = @ + 1]
        label == toLowerCase(ownerMetadata.account_label)
    IN  IF classification.type = AccountType.CEX
        THEN LET breakdownKey == OrElse(label, classification.subType, "exchange (unknown)")
             IN  AddCex(sp1, IF classification.confidence # "high"
                             THEN breakdownKey \o " [" \o classification.confidence \o "]"
                             ELSE breakdownKey,
                        entry.amount)
        ELSE IF classification.type = AccountType.DEX
        THEN AddDex(sp1, OrElse(label, classification.subType, "dex (unknown)"), entry.amount)
        ELSE AddOnchain(sp1, entry.amount)

InitFull ==
    /\ pc = "full.start"
    /\ chain \in {MkChain(prog, a, meta, NoFeeds) :
                     prog \in {TOKEN_PROGRAM_ID} \cup {EXTRA_TOKEN_PROGRAM_IDS[i] :
                                   i \in 1..Len(EXTRA_TOKEN_PROGRAM_IDS)},
                     a \in AccountLists({<<"initialized", "initialized", "initialized">>,
                                         <<"frozen", "initialized", "initialized">>}),
                     meta \in [Owners -> HolderMeta]}
    /\ cth = NoCth /\ split = NoSplit /\ lock = NoLock /\ report = NoReport
    /\ analysis = NoAnalysis
    /\ AccountIdle /\ WalletIdle /\ HistoryIdle

FullGetMintInfo ==
    /\ pc = "full.start"
    /\ getMintResolves(chain)
    /\ split' = SplitStart("full", getMintInfo(chain).supply)
    /\ pc' = "full.accounts"
    /\ UNCHANGED <<chain, data, acct, wIn, wOut, hist, histOut, cth, lock, report, analysis>>

\* getMintInfo or getParsedProgramAccounts rejects: nothing is caught
FullQueryFails ==
    /\ pc \in {"full.start", "full.accounts"}
    /\ pc' = "full.thrown"
    /\ UNCHANGED <<chain, data, acct, wIn, wOut, hist, histOut, cth, split, lock, report, analysis>>

\* lines 1333-1362: the accounts under TOKEN_PROGRAM_ID, summed per owner, sorted;
\* `queried` keeps the program ids the enumeration asked the connection for
FullEnumerate ==
    /\ pc = "full.accounts"
    /\ split' = [split EXCEPT !.queried = Append(@, TOKEN_PROGRAM_ID),
                              !.ownersSorted =
                    SortDesc(PerOwner(getParsedProgramAccounts(chain, TOKEN_PROGRAM_ID)))]
    /\ pc' = "full.owner"
    /\ UNCHANGED <<chain, data, acct, wIn, wOut, hist, histOut, cth, lock, report, analysis>>

FullOwner ==
    /\ pc = "full.owner"
    /\ split.index <= Len(split.ownersSorted)
    /\ split' = FullBucket(chain, split, split.ownersSorted[split.index])
    /\ UNCHANGED <<pc, chain, data, acct, wIn, wOut, hist, histOut, cth, lock, report, analysis>>

FullReturn ==
    /\ pc = "full.owner"
    /\ split.index > Len(split.ownersSorted)
    /\ pc' = "full.done"
    /\ UNCHANGED <<chain, data, acct, wIn, wOut, hist, histOut, cth, split, lock, report, analysis>>

NextFull == FullGetMintInfo \/ FullQueryFails \/ FullEnumerate \/ FullOwner \/ FullReturn

SpecFull == InitFull /\ [][NextFull]_vars

\* C4: the result of getSupplySplitFull satisfies
\* cex + dex + onchainNonCexDex = totalSupply, the total of the balances of the
\* mint's token accounts: every balance is in exactly one bucket.
C4_FullSumsToSupply ==
    pc = "full.done" =>
        /\ split.cex + split.dex + split.onchainNonCexDex = split.totalSupply
        /\ split.totalSupply = SumAmounts(chain.accounts)

C4_Witness ==
    /\ pc = "full.done"
    /\ split.cex > 0 /\ split.onchainNonCexDex > 0
    /\ Len(split.ownersSorted) = 2
    /\ \A i \in 1..Len(chain.accounts) : chain.accounts[i].amount > 0

----------------------------------------------------------------------------
(* SolanaLib.getLockBreakdown and its two scans                            *)

DEFAULT_LOCK_LABEL_KEYWORDS ==
    <<"streamflow", "vesting", "timelock", "lock", "escrow", "cliff",
      "unlock schedule", "vsr", "realms", "governance lock">>

MAX_CHECKS == 300

\* getParsedTokenAccountsForMint: TOKEN_PROGRAM_ID, then every extra program id
RECURSIVE ConcatAccounts(_, _)
ConcatAccounts(c, programIds) ==
    IF Len(programIds) = 0 THEN <<>>
    ELSE ConcatAccounts(c, SubSeq(programIds, 1, Len(programIds) - 1))
         \o getParsedProgramAccounts(c, programIds[Len(programIds)])

getParsedTokenAccountsForMint(c) ==
    ConcatAccounts(c, <<TOKEN_PROGRAM_ID>> \o EXTRA_TOKEN_PROGRAM_IDS)

\* the state is compared as it is spelled
IsFrozenEntry_CaseSensitive(a) == a.state = "frozen" /\ a.amount > 0

\* (info.state || "").toString().toLowerCase() === "frozen", with ui > 0
IsFrozenEntry(a) == toLowerCase(a.state) = "frozen" /\ a.amount > 0

\* lines 1156-1187: the frozen accounts, their total and the per-owner map
getFrozenSupplyAndAccounts(c) ==
    LET entries == SelectSeq(getParsedTokenAccountsForMint(c), IsFrozenEntry)
        frozenOwners == {entries[i].owner : i \in 1..Len(entries)}
    IN  [totalFrozen |-> SumAmounts(entries),
         entries |-> entries,
         perOwnerFrozenMap |->
             [o \in frozenOwners |->
                 SumAmounts(SelectSeq(entries, LAMBDA e : e.owner = o))]]

\* perOwnerFrozenMap.get(owner) || 0
FrozenPortion(map, owner) == IF owner \in DOMAIN map THEN map[owner] ELSE 0

\* [label || "", ...tags].join(" ")
RECURSIVE JoinTags(_)
JoinTags(tags) ==
    IF Len(tags) = 0 THEN ""
    ELSE JoinTags(SubSeq(tags, 1, Len(tags) - 1)) \o " " \o tags[Len(tags)]

Haystack(metadata) ==
    toLowerCase(metadata.account_label) \o JoinTags(MapLower(metadata.account_tags))

\* the first keyword the haystack includes, "" when there is none
MatchedKeyword(metadata) ==
    LET keywords == MapLower(DEFAULT_LOCK_LABEL_KEYWORDS)
        hits == {i \in 1..Len(keywords) : Includes(Haystack(metadata), keywords[i])}
    IN  IF hits = {} THEN ""
        ELSE keywords[CHOOSE i \in hits : \A j \in hits : i <= j]

\* the frozen portion is not taken off
LabeledEntry_NoExclusion(owner, metadata, balance, frozenPortion, matched) ==
    [owner |-> owner, label |-> metadata.account_label, tags |-> metadata.account_tags,
     balance |-> balance, frozenPortion |-> frozenPortion,
     effectiveLocked |-> balance, matchedBy |-> matched]

\* the frozen portion is added instead of taken off
LabeledEntry_Added(owner, metadata, balance, frozenPortion, matched) ==
    [owner |-> owner, label |-> metadata.account_label, tags |-> metadata.account_tags,
     balance |-> balance, frozenPortion |-> frozenPortion,
     effectiveLocked |-> Max(0, balance + frozenPortion), matchedBy |-> matched]

\* lines 1260-1271: the LabeledOwnerEntry of a matched owner
LabeledEntry(owner, metadata, balance, frozenPortion, matched) ==
    [owner |-> owner, label |-> metadata.account_label, tags |-> metadata.account_tags,
     balance |-> balance, frozenPortion |-> frozenPortion,
     effectiveLocked |-> Max(0, balance - frozenPortion), matchedBy |-> matched]

LockStart(totalSupply) ==
    [stage |-> "started", totalSupply |-> totalSupply, totalFrozen |-> 0,
     frozenEntries |-> <<>>, perOwnerFrozenMap |-> <<>>,
     holdersSorted |-> <<>>, index |-> 1, checks |-> 0, lookups |-> <<>>,
     labeledOwners |-> <<>>, labeledTotalEffective |-> 0,
     lockedTotal |-> 0, circulating |-> 0,
     components |-> [frozen |-> 0, labeledVesting |-> 0],
     details |-> [frozenAccounts |-> <<>>, labeledOwners |-> <<>>]]

\* the loop of estimateLockedByLabelsExcludingFrozen stops at the first owner
\* past the cap or below the minimum balance
LabelLoopBreaks(l) ==
    IF l.index > Len(l.holdersSorted) THEN TRUE
    ELSE IF l.checks >= MAX_CHECKS THEN TRUE
    ELSE ~AtLeastMinBalance(l.holdersSorted[l.index].amount, l.totalSupply)

\* lines 1232-1274: one iteration that does not break
LabelStep(c, l) ==
    LET entry == l.holdersSorted[l.index]
        metadata == getAccountMetadata(c, entry.owner)
        matched == MatchedKeyword(metadata)
        l1 == [l EXCEPT !.checks = @ + 1, !.lookups = Append(@, entry), !.index = @ + 1]
        e == LabeledEntry(entry.owner, metadata, entry.amount,
                          FrozenPortion(l.perOwnerFrozenMap, entry.owner), matched)
    IN  IF matched = "" THEN l1
        ELSE [l1 EXCEPT !.labeledOwners = Append(@, e),
                        !.labeledTotalEffective = @ + e.effectiveLocked]

\* sort by effectiveLocked, descending
RECURSIVE SortByLocked(_)
SortByLocked(seq) ==
    IF Len(seq) = 0 THEN <<>>
    ELSE LET sorted == SortByLocked(SubSeq(seq, 1, Len(seq) - 1))
             x == seq[Len(seq)]
             n == Cardinality({i \in 1..Len(sorted) :
                                  sorted[i].effectiveLocked >= x.effectiveLocked})
         IN  SubSeq(sorted, 1, n) \o <<x>> \o SubSeq(sorted, n + 1, Len(sorted))

\* the frozen total is left out of lockedTotal
LockResult_NoFrozen(l) ==
    LET lockedTotal == l.labeledTotalEffective
    IN  [l EXCEPT !.stage = "returned",
                  !.lockedTotal = lockedTotal,
                  !.circulating = Max(0, l.totalSupply - lockedTotal),
                  !.components = [frozen |-> l.totalFrozen,
                                  labeledVesting |-> l.labeledTotalEffective],
                  !.details = [frozenAccounts |-> SortDesc(l.frozenEntries),
                               labeledOwners |-> SortByLocked(l.labeledOwners)]]

\* lines 1292-1314: the LockBreakdown
LockResult(l) ==
    LET lockedTotal == l.totalFrozen + l.labeledTotalEffective
    IN  [l EXCEPT !.stage = "returned",
                  !.lockedTotal = lockedTotal,
                  !.circulating = Max(0, l.totalSupply - lockedTotal),
                  !.components = [frozen |-> l.totalFrozen,
                                  labeledVesting |-> l.labeledTotalEffective],
                  !.details = [frozenAccounts |-> SortDesc(l.frozenEntries),
                               labeledOwners |-> SortByLocked(l.labeledOwners)]]

LockMeta == {NullData, MkData("Streamflow Vesting", <<>>), MkData("", <<"Escrow">>),
             MkData("Binance Hot Wallet", <<"exchange">>)}

InitLock ==
    /\ pc = "lock.start"
    /\ chain \in {MkChain(prog, a, meta, NoFeeds) :
                     prog \in {TOKEN_PROGRAM_ID} \cup {EXTRA_TOKEN_PROGRAM_IDS[i] :
                                   i \in 1..Len(EXTRA_TOKEN_PROGRAM_IDS)},
                     a \in AccountLists({<<"initialized", "initialized", "initialized">>,
                                         <<"frozen", "initialized", "initialized">>,
                                         <<"initialized", "Frozen", "frozen">>,
                                         <<"frozen", "frozen", "frozen">>}),
                     meta \in [Owners -> LockMeta]}
    /\ cth = NoCth /\ split = NoSplit /\ lock = NoLock /\ report = NoReport
    /\ analysis = NoAnalysis
    /\ AccountIdle /\ WalletIdle /\ HistoryIdle

LockGetMintInfo ==
    /\ pc = "lock.start"
    /\ getMintResolves(chain)
    /\ lock' = LockStart(getMintInfo(chain).supply)
    /\ pc' = "lock.frozen"
    /\ UNCHANGED <<chain, data, acct, wIn, wOut, hist, histOut, cth, split, report, analysis>>

\* getMintInfo or an account enumeration rejects: nothing is caught
LockQueryFails ==
    /\ pc \in {"lock.start", "lock.frozen", "lock.labels"}
    /\ pc' = "lock.thrown"
    /\ UNCHANGED <<chain, data, acct, wIn, wOut, hist, histOut, cth, split, lock, report, analysis>>

LockFrozenScan ==
    /\ pc = "lock.frozen"
    /\ LET f == getFrozenSupplyAndAccounts(chain)
       IN  lock' = [lock EXCEPT !.totalFrozen = f.totalFrozen,
                                !.frozenEntries = f.entries,
                                !.perOwnerFrozenMap = f.perOwnerFrozenMap]
    /\ pc' = "lock.labels"
    /\ UNCHANGED <<chain, data, acct, wIn, wOut, hist, histOut, cth, split, report, analysis>>

\* lines 1201-1218: the second enumeration, summed per owner, sorted
LockLabelEnumerate ==
    /\ pc = "lock.labels"
    /\ lock' = [lock EXCEPT !.holdersSorted =
                   SortDesc(PerOwner(getParsedTokenAccountsForMint(chain)))]
    /\ pc' = "lock.owner"
    /\ UNCHANGED <<chain, data, acct, wIn, wOut, hist, histOut, cth, split, report, analysis>>

LockOwner ==
    /\ pc = "lock.owner"
    /\ ~LabelLoopBreaks(lock)
    /\ lock' = LabelStep(chain, lock)
    /\ UNCHANGED <<pc, chain, data, acct, wIn, wOut, hist, histOut, cth, split, report, analysis>>

LockReturn ==
    /\ pc = "lock.owner"
    /\ LabelLoopBreaks(lock)
    /\ lock' = LockResult(lock)
    /\ pc' = "lock.done"
    /\ UNCHANGED <<chain, data, acct, wIn, wOut, hist, histOut, cth, split, report, analysis>>

NextLock ==
    \/ LockGetMintInfo \/ LockQueryFails \/ LockFrozenScan \/ LockLabelEnumerate
    \/ LockOwner \/ LockReturn

SpecLock == InitLock /\ [][NextLock]_vars

\* the program ids a scan of the token accounts of a mint is to cover
ProgramIds == {TOKEN_PROGRAM_ID} \cup {EXTRA_TOKEN_PROGRAM_IDS[i] :
                                         i \in 1..Len(EXTRA_TOKEN_PROGRAM_IDS)}

\* C21: the exhaustive split enumerates the token accounts of the mint under
\* the standard token program and under every additional token-program id,
\* and works over the same token accounts as the two scans of the lock
\* estimator (which enumerate with getParsedTokenAccountsForMint).
C21_FullEnumeratesEveryProgram ==
    pc \in {"full.owner", "full.done"} =>
        /\ {split.queried[i] : i \in 1..Len(split.queried)} = ProgramIds
        /\ split.ownersSorted = SortDesc(PerOwner(getParsedTokenAccountsForMint(chain)))

\* the entries the estimator has produced so far
LabeledSoFar == IF pc \in {"lock.owner", "lock.done"} THEN lock.labeledOwners ELSE <<>>

RECURSIVE SumEffective(_)
SumEffective(entries) ==
    IF Len(entries) = 0 THEN 0
    ELSE entries[Len(entries)].effectiveLocked
         + SumEffective(SubSeq(entries, 1, Len(entries) - 1))

\* balances of an owner's token accounts, all of them or the frozen ones
OwnerTotal(o) ==
    SumAmounts(SelectSeq(chain.accounts, LAMBDA a : a.owner = o))
OwnerFrozenTotal(o) ==
    SumAmounts(SelectSeq(chain.accounts,
                         LAMBDA a : a.owner = o /\ a.state \in {"frozen", "Frozen"}))

\* sum of the values of a Map
RECURSIVE SumMap(_)
SumMap(map) ==
    IF DOMAIN map = {} THEN 0
    ELSE LET k == CHOOSE x \in DOMAIN map : TRUE
         IN  map[k] + SumMap([j \in DOMAIN map \ {k} |-> map[j]])

\* the token accounts of the mint whose state reads "frozen" in any letter case
FrozenOnChain ==
    SelectSeq(chain.accounts, LAMBDA a : a.state \in {"frozen", "Frozen", "FROZEN"})

\* C15: the frozen-state scan adds the balance of every token account whose
\* state is "frozen", compared case-insensitively, and of no other account:
\* components.frozen is the sum of the balances of the frozen accounts, which is
\* the sum of the values of the per-owner frozen map.
C15_FrozenScanTotal ==
    /\ pc \in {"lock.labels", "lock.owner", "lock.done"} =>
           /\ lock.totalFrozen = SumAmounts(FrozenOnChain)
           /\ lock.totalFrozen = SumMap(lock.perOwnerFrozenMap)
           /\ {lock.frozenEntries[i].address : i \in 1..Len(lock.frozenEntries)}
                  = {FrozenOnChain[i].address :
                        i \in {j \in 1..Len(FrozenOnChain) : FrozenOnChain[j].amount > 0}}
    /\ pc = "lock.done" => lock.components.frozen = SumAmounts(FrozenOnChain)

C15_Witness ==
    /\ pc = "lock.done"
    /\ \E i, j, k \in 1..Len(chain.accounts) :
          /\ chain.accounts[i].state = "Frozen" /\ chain.accounts[i].amount > 0
          /\ chain.accounts[j].state = "frozen" /\ chain.accounts[j].amount > 0
          /\ chain.accounts[k].state = "initialized" /\ chain.accounts[k].amount > 0
    /\ lock.components.frozen > 0
    /\ DOMAIN lock.perOwnerFrozenMap = Owners

\* C5: every LabeledOwnerEntry satisfies 0 <= effectiveLocked <= balance.
C5_EffectiveLockedInRange ==
    \A i \in 1..Len(LabeledSoFar) :
        /\ 0 <= LabeledSoFar[i].effectiveLocked
        /\ LabeledSoFar[i].effectiveLocked <= LabeledSoFar[i].balance

C5_Witness ==
    /\ pc = "lock.done"
    /\ \E i \in 1..Len(lock.labeledOwners) :
          /\ lock.labeledOwners[i].frozenPortion > 0
          /\ lock.labeledOwners[i].effectiveLocked > 0
          /\ lock.labeledOwners[i].effectiveLocked < lock.labeledOwners[i].balance

\* C6: in the returned LockBreakdown lockedTotal = components.frozen plus the sum
\* of effectiveLocked over details.labeledOwners, and
\* circulating = max(0, totalSupply - lockedTotal).
C6_LockedTotalAndCirculating ==
    pc = "lock.done" =>
        /\ lock.lockedTotal = lock.components.frozen + SumEffective(lock.details.labeledOwners)
        /\ lock.circulating = Max(0, lock.totalSupply - lock.lockedTotal)

C6_Witness ==
    /\ pc = "lock.done"
    /\ lock.components.frozen > 0
    /\ Len(lock.details.labeledOwners) = 1
    /\ lock.details.labeledOwners[1].frozenPortion > 0
    /\ lock.circulating > 0

\* C7: for every labeled owner effectiveLocked is the owner's total balance minus
\* the balance of the owner's frozen token accounts, and lockedTotal is at most
\* the sum of the balances of all token accounts of the mint.
C7_NoDoubleCount ==
    pc = "lock.done" =>
        /\ \A i \in 1..Len(lock.details.labeledOwners) :
              LET e == lock.details.labeledOwners[i]
              IN  e.effectiveLocked = OwnerTotal(e.owner) - OwnerFrozenTotal(e.owner)
        /\ lock.lockedTotal <= SumAmounts(chain.accounts)

C7_Witness ==
    /\ pc = "lock.done"
    /\ \E i \in 1..Len(lock.details.labeledOwners) :
          LET e == lock.details.labeledOwners[i]
          IN  /\ OwnerFrozenTotal(e.owner) > 0
              /\ e.effectiveLocked = OwnerTotal(e.owner) - OwnerFrozenTotal(e.owner)
              /\ e.effectiveLocked > 0
    /\ lock.lockedTotal = SumAmounts(chain.accounts)

----------------------------------------------------------------------------
(* SolanaLib.generate                                                      *)

\* the whole of classifyTokenHolders once mint info and holders are fetched:
\* the classifications of the holders whose iteration did not throw
classifyTokenHolders(c, thrown) ==
    LET holders == getTopHolders(c)
        kept == SelectSeq([i \in 1..Len(holders) |-> i], LAMBDA i : i \notin thrown)
    IN  [k \in 1..Len(kept) |-> classifyHolder(c, holders[kept[k]], getMintInfo(c).rawSupply)]

\* the locals of generate at its start; nothing is on disk
GenStart(includeFullSplit) ==
    [written |-> FALSE, includeFullSplit |-> includeFullSplit,
     mintInfo |-> [supply |-> -1, rawSupply |-> -1],
     holders |-> <<>>, classified |-> <<>>,
     splitTop20 |-> NoSplit, splitFull |-> NoSplit, lockStats |-> NoLock,
     file |-> <<>>]

\* classByWallet.get(address): the last classification set for the address
ClassByWallet(classified, address) ==
    LET hits == {i \in 1..Len(classified) : classified[i].address = address}
    IN  IF hits = {} THEN Undefined
        ELSE classified[CHOOSE i \in hits : \A j \in hits : i >= j].category

\* [...holders].sort((a, b) => b.balance - a.balance)
SortHolders(holders) ==
    LET keyed == SortDesc([i \in 1..Len(holders) |-> [amount |-> holders[i].balance, h |-> holders[i]]])
    IN  [i \in 1..Len(keyed) |-> keyed[i].h]

\* the rows of the Holders section
HolderRows(r) ==
    LET sorted == SortHolders(r.holders)
    IN  [i \in 1..Len(sorted) |->
            LET cls == ClassByWallet(r.classified, sorted[i].walletAddress)
            IN  [tokenAccount |-> sorted[i].tokenAccount,
                 owner |-> sorted[i].walletAddress,
                 category |-> IF cls = Undefined THEN WalletCategory.Community ELSE cls,
                 balance |-> sorted[i].balance,
                 pctSupply |-> getSupplyPct(sorted[i].rawBalance, r.mintInfo.rawSupply)]]

\* the sections of the CSV report, in the order they are pushed
ReportLines(r, lockStats) ==
    [mintInfo |-> r.mintInfo.supply,
     splitTop20 |-> r.splitTop20,
     splitFull |-> r.splitFull,
     lockSummary |-> [totalSupply |-> lockStats.totalSupply,
                      lockedTotal |-> lockStats.lockedTotal,
                      circulating |-> lockStats.circulating,
                      components |-> lockStats.components],
     holders |-> HolderRows(r),
     classifiedCount |-> Len(r.classified)]

GenMeta == {NullData, MkData("Binance Hot Wallet", <<"exchange">>),
            MkData("Streamflow Vesting", <<>>)}

GenFeeds == [o \in Owners |-> IF o = "o1" THEN MkFeed(0, "short", "in", 200, Unit)
                                ELSE MkFeed(0, "error", "in", 0, Unit)]

InitGenerate ==
    /\ pc = "gen.start"
    /\ chain \in {MkChain(prog, a, meta, GenFeeds) :
                     prog \in {TOKEN_PROGRAM_ID} \cup {EXTRA_TOKEN_PROGRAM_IDS[i] :
                                   i \in 1..Len(EXTRA_TOKEN_PROGRAM_IDS)},
                     a \in AccountLists({<<"frozen", "initialized", "initialized">>}),
                     meta \in [Owners -> GenMeta]}
    /\ report \in {GenStart(f) : f \in BOOLEAN}
    /\ cth = NoCth /\ split = NoSplit /\ lock = NoLock /\ analysis = NoAnalysis
    /\ AccountIdle /\ WalletIdle /\ HistoryIdle

GenGetMintInfo ==
    /\ pc = "gen.start"
    /\ getMintResolves(chain)
    /\ report' = [report EXCEPT !.mintInfo = getMintInfo(chain)]
    /\ pc' = "gen.holders"
    /\ UNCHANGED <<chain, data, acct, wIn, wOut, hist, histOut, cth, split, lock, analysis>>

\* (await this.getTopHolders(mintKey)) ?? []
GenGetTopHolders ==
    /\ pc = "gen.holders"
    /\ report' = [report EXCEPT !.holders = getTopHolders(chain)]
    /\ pc' = "gen.classify"
    /\ UNCHANGED <<chain, data, acct, wIn, wOut, hist, histOut, cth, split, lock, analysis>>

\* await this.classifyTokenHolders(...), some holders' iterations throwing
GenClassify ==
    /\ pc = "gen.classify"
    /\ getMintResolves(chain)
    /\ \E thrown \in SUBSET (1..Len(getTopHolders(chain))) :
           report' = [report EXCEPT !.classified = classifyTokenHolders(chain, thrown)]
    /\ pc' = "top20.start"
    /\ UNCHANGED <<chain, data, acct, wIn, wOut, hist, histOut, cth, split, lock, analysis>>

\* the failure is swallowed and a report is written from what there is
GenQueryFails_Swallowed ==
    /\ pc \in {"gen.start", "gen.holders", "gen.classify"}
    /\ report' = [report EXCEPT !.written = TRUE]
    /\ pc' = "gen.done"
    /\ UNCHANGED <<chain, data, acct, wIn, wOut, hist, histOut, cth, split, lock, analysis>>

\* getMintInfo, getTopHolders or classifyTokenHolders rejects: generate has no
\* try block, the rejection is its own
GenQueryFails ==
    /\ pc \in {"gen.start", "gen.holders", "gen.classify"}
    /\ pc' = "gen.thrown"
    /\ UNCHANGED <<chain, data, acct, wIn, wOut, hist, histOut, cth, split, lock, report, analysis>>

\* getSupplySplitTop20 has returned
GenTop20Done ==
    /\ pc = "top20.done"
    /\ report' = [report EXCEPT !.splitTop20 = split]
    /\ pc' = IF report.includeFullSplit THEN "full.start" ELSE "lock.start"
    /\ UNCHANGED <<chain, data, acct, wIn, wOut, hist, histOut, cth, split, lock, analysis>>

\* getSupplySplitFull has returned
GenFullDone ==
    /\ pc = "full.done"
    /\ report' = [report EXCEPT !.splitFull = split]
    /\ pc' = "lock.start"
    /\ UNCHANGED <<chain, data, acct, wIn, wOut, hist, histOut, cth, split, lock, analysis>>

\* getLockBreakdown has returned: the remaining sections, then fs.writeFile
GenWriteFile ==
    /\ pc = "lock.done"
    /\ report' = [report EXCEPT !.lockStats = lock, !.written = TRUE,
                                !.file = ReportLines(report, lock)]
    /\ pc' = "gen.done"
    /\ UNCHANGED <<chain, data, acct, wIn, wOut, hist, histOut, cth, split, lock, analysis>>

NextGenerate ==
    \/ GenGetMintInfo \/ GenGetTopHolders \/ GenClassify \/ GenQueryFails
    \/ Top20GetMintInfo \/ CthGetMintInfo \/ ChainQueryFails \/ CthGetTopHolders
    \/ CthHolder \/ CthHolderThrows \/ CthDelay \/ CthReturn \/ Top20Aggregate
    \/ GenTop20Done
    \/ FullGetMintInfo \/ FullQueryFails \/ FullEnumerate \/ FullOwner \/ FullReturn
    \/ GenFullDone
    \/ LockGetMintInfo \/ LockQueryFails \/ LockFrozenScan \/ LockLabelEnumerate
    \/ LockOwner \/ LockReturn
    \/ GenWriteFile

SpecGenerate == InitGenerate /\ [][NextGenerate]_vars

\* the positions of a call that rejected
Thrown == {"gen.thrown", "top20.thrown", "full.thrown", "lock.thrown"}

\* C17: if mint info or the top-holder set cannot be fetched, classifyTokenHolders,
\* getSupplySplitTop20, getSupplySplitFull, getLockBreakdown and generate pass the
\* error on to the caller and produce no result: generate writes no report file.
\* (A rejected call is the end of the run; a mint whose info cannot be fetched
\* gets no report; a written report has every part fetched.)
C17_FetchFailurePropagates ==
    /\ [](pc \in Thrown => ~report.written)
    /\ [][(pc \in Thrown) => UNCHANGED vars]_vars
    /\ [](~getMintResolves(chain) => (pc \in {"gen.start", "gen.thrown"} /\ ~report.written))
    /\ [](report.written =>
              /\ pc = "gen.done"
              /\ report.mintInfo = getMintInfo(chain)
              /\ report.file.splitTop20.basis = "top20"
              /\ report.includeFullSplit => report.file.splitFull.basis = "full"
              /\ report.lockStats.stage = "returned")

C17_Witness ==
    /\ pc = "top20.thrown"
    /\ getMintResolves(chain)
    /\ Len(report.classified) = 2
    /\ "holdersFetched" \in DOMAIN cth
    /\ ~cth.holdersFetched /\ cth.supplyRaw > 0
    /\ ~report.written

\* the positions at which a call awaits getMintInfo: generate (line 1549),
\* classifyTokenHolders (line 652, for generate and again for the bounded
\* split), getSupplySplitTop20 (line 1027), getSupplySplitFull (line 1331) and
\* getLockBreakdown (line 1282)
MintInfoAwaited ==
    {"gen.start", "gen.classify", "top20.start", "cth.start", "full.start", "lock.start"}

\* C26: in one analysis run (one call of generate), mint info is fetched from
\* the chain provider exactly once (by generate itself), and the supply splits,
\* the lock breakdown and the holder rows all use that one fetched value.
C26_MintInfoFetchedOnce ==
    [][/\ (pc \in MintInfoAwaited /\ pc' \notin Thrown) => pc = "gen.start"
       /\ (pc' = "gen.done") =>
              /\ report'.splitTop20.totalSupply = report'.mintInfo.supply
              /\ report'.lockStats.totalSupply = report'.mintInfo.supply
              /\ report'.includeFullSplit =>
                     report'.splitFull.totalSupply = report'.mintInfo.supply]_vars

----------------------------------------------------------------------------
(* The two scans that look up metadata, on a mint with many owners         *)

\* owners of the crowded mint, each above the minimum balance
CrowdOwners == 302

CrowdOwner(i) == "w" \o ToString(i)
CrowdBalance == 40

\* CrowdOwners equal accounts and one account of dust, below 0.01% of the supply
CrowdAccounts ==
    [i \in 1..CrowdOwners |->
        TokenAccount("t" \o ToString(i), CrowdOwner(i), CrowdBalance, "initialized")]
    \o <<TokenAccount("tdust", "dust", 1, "initialized")>>

CrowdLabel == MkData("Binance Lock", <<>>)

\* the first owner, the last owner and the dust owner are labeled
CrowdChain ==
    LET names == {CrowdOwner(i) : i \in 1..CrowdOwners} \cup {"dust"}
    IN  MkChain(TOKEN_PROGRAM_ID, CrowdAccounts,
                [o \in names |-> IF o \in {CrowdOwner(1), CrowdOwner(CrowdOwners), "dust"}
                                  THEN CrowdLabel ELSE NullData],
                [o \in names |-> MkFeed(0, "empty", "in", 0, Unit)])

InitScans ==
    /\ pc \in {"full.start", "lock.start"}
    /\ chain \in {CrowdChain} \cup
                 {MkChain(TOKEN_PROGRAM_ID, a, meta, NoFeeds) :
                     a \in AccountLists({<<"initialized", "initialized", "initialized">>}),
                     meta \in [Owners -> {NullData, CrowdLabel}]}
    /\ cth = NoCth /\ split = NoSplit /\ lock = NoLock /\ report = NoReport
    /\ analysis = NoAnalysis
    /\ AccountIdle /\ WalletIdle /\ HistoryIdle

NextScans ==
    \/ FullGetMintInfo \/ FullQueryFails \/ FullEnumerate \/ FullOwner \/ FullReturn
    \/ LockGetMintInfo \/ LockQueryFails \/ LockFrozenScan \/ LockLabelEnumerate
    \/ LockOwner \/ LockReturn

SpecScans == InitScans /\ [][NextScans]_vars

Min(a, b) == IF a <= b THEN a ELSE b

\* the owners of a sorted list that hold at least 0.01% of the supply
Material(sorted, totalSupply) ==
    {i \in 1..Len(sorted) : sorted[i].amount * 10000 >= totalSupply}

\* the CEX and DEX types, which alone leave the on-chain bucket
IsExchangeType(metadata) ==
    classifyAccount(metadata).type \in {AccountType.CEX, AccountType.DEX}

\* C20: in any run of the exhaustive split and of the labeled-vesting scan at
\* most 300 metadata lookups are issued, none for an owner below 0.01% of the
\* total supply, and an owner skipped for being below the threshold does not
\* consume the cap (the lookups issued are as many as the owners at or above the
\* threshold, up to 300); in the exhaustive split every owner without a lookup
\* is classified with null metadata and its balance goes to the on-chain bucket.
C20_LookupCapAndThreshold ==
    /\ pc \in {"full.owner", "full.done"} =>
           /\ Len(split.lookups) <= 300
           /\ split.metadataChecks = Len(split.lookups)
           /\ \A i \in 1..Len(split.lookups) :
                  split.lookups[i].amount * 10000 >= split.totalSupply
    /\ pc = "full.done" =>
           /\ Len(split.lookups)
                  = Min(300, Cardinality(Material(split.ownersSorted, split.totalSupply)))
           /\ split.onchainNonCexDex =
                  SumAmounts(SelectSeq(split.ownersSorted, LAMBDA e :
                      \/ \A i \in 1..Len(split.lookups) : split.lookups[i].owner # e.owner
                      \/ ~IsExchangeType(getAccountMetadata(chain, e.owner))))
    /\ pc \in {"lock.owner", "lock.done"} =>
           /\ Len(lock.lookups) <= 300
           /\ lock.checks = Len(lock.lookups)
           /\ \A i \in 1..Len(lock.lookups) :
                  lock.lookups[i].amount * 10000 >= lock.totalSupply
    /\ pc = "lock.done" =>
           Len(lock.lookups)
               = Min(300, Cardinality(Material(lock.holdersSorted, lock.totalSupply)))

C20_Witness ==
    /\ pc = "full.done"
    /\ Len(split.ownersSorted) > 300
    /\ Len(split.lookups) = 300
    /\ IsExchangeType(getAccountMetadata(chain, split.ownersSorted[CrowdOwners].owner))
    /\ IsExchangeType(getAccountMetadata(chain, split.ownersSorted[Len(split.ownersSorted)].owner))
    /\ split.ownersSorted[Len(split.ownersSorted)].amount * 10000 < split.totalSupply
    /\ split.cex = split.ownersSorted[1].amount

----------------------------------------------------------------------------
(* SolanaLib.getSupplyAnalysis                                             *)

\* getSupplySplitTop20 as one call, given the holders whose iteration throws
getSupplySplitTop20(c, thrown) ==
    Top20Result(SplitStart("top20", getMintInfo(c).supply), classifyTokenHolders(c, thrown))

\* the loop of getSupplySplitFull over ownersSorted, from the owner at sp.index
RECURSIVE FullLoop(_, _)
FullLoop(c, sp) ==
    IF sp.index > Len(sp.ownersSorted) THEN sp
    ELSE FullLoop(c, FullBucket(c, sp, sp.ownersSorted[sp.index]))

\* getSupplySplitFull as one call
getSupplySplitFull(c) ==
    FullLoop(c, [SplitStart("full", getMintInfo(c).supply) EXCEPT
                    !.queried = <<TOKEN_PROGRAM_ID>>,
                    !.ownersSorted =
                        SortDesc(PerOwner(getParsedProgramAccounts(c, TOKEN_PROGRAM_ID)))])

\* 0 / 0 in the percentages of a mint without supply
NaN == "NaN"

\* lines 1478-1509: the risk metrics, from the exhaustive split alone;
\* x > 50 for x = cex / supply * 100 is cex * 100 > 50 * supply, and
\* Math.round(100 - x) is the floor of 100 - x + 1/2
AnalysisSummary(full) ==
    LET s == full.totalSupply
        exch == full.cex + full.dex
    IN  [totalHolders |-> Cardinality(DOMAIN full.breakdownByExchange)
                          + (IF full.dexName # Undefined /\ full.dexName # "" THEN 1 ELSE 0)
                          + 50,
         concentrationRisk |-> IF s = 0 THEN "low"
                               ELSE IF full.cex * 100 > 50 * s THEN "high"
                               ELSE IF full.cex * 100 > 25 * s THEN "medium" ELSE "low",
         exchangeExposure |-> IF s = 0 THEN "low"
                              ELSE IF exch * 100 > 60 * s THEN "high"
                              ELSE IF exch * 100 > 30 * s THEN "medium" ELSE "low",
         decentralizationScore |-> IF s = 0 THEN NaN
                                   ELSE (200 * s - 200 * full.cex + s) \div (2 * s),
         primaryDex |-> full.dexName]

\* a pending call: where it waits, and its locals
Pending(p, c, sp) == [pc |-> p, cth |-> c, split |-> sp]

Settled == {"top20.done", "full.done"}
Rejected == {"top20.thrown", "full.thrown"}

\* a call that has gone past its first await and has not settled
MidCall(p) == p \notin {"top20.start", "full.start"} \cup Settled \cup Rejected

\* Promise.all([getSupplySplitTop20(..), getSupplySplitFull(..)]): both calls
\* have run to their first await; one of them is resumed first
AnalysisStart ==
    [running |-> "top20", parked |-> Pending("full.start", NoCth, NoSplit),
     top20 |-> NoSplit, full |-> NoSplit, summary |-> <<>>, interleaved |-> FALSE]

AnMeta == {NullData, MkData("Binance Hot Wallet", <<"exchange">>),
           MkData("Raydium Pool", <<>>), MkData("Solend", <<>>)}

AnFeeds == {MkFeed(0, "error", "in", 0, Unit), MkFeed(0, "short", "out", 0, BigAmount)}

AnAccounts ==
    {<<TokenAccount("a1", o[1], m[1], "initialized"),
       TokenAccount("a2", o[2], m[2], "initialized"),
       TokenAccount("a3", o[3], m[3], "initialized")>> :
        o \in {<<"o1", "o2", "o1">>, <<"o1", "o1", "o2">>},
        m \in {<<6000, 50, 900>>, <<0, 0, 0>>}}

InitAnalysis ==
    /\ pc = "top20.start"
    /\ chain \in {MkChain(prog, a, meta, feed) :
                     prog \in {TOKEN_PROGRAM_ID} \cup {EXTRA_TOKEN_PROGRAM_IDS[i] :
                                   i \in 1..Len(EXTRA_TOKEN_PROGRAM_IDS)},
                     a \in AnAccounts,
                     meta \in [Owners -> AnMeta], feed \in [Owners -> AnFeeds]}
    /\ analysis = AnalysisStart
    /\ cth = NoCth /\ split = NoSplit /\ lock = NoLock /\ report = NoReport
    /\ AccountIdle /\ WalletIdle /\ HistoryIdle

\* the two pending calls use the same accumulators
AnResume_SharedSplit ==
    /\ analysis.running # ""
    /\ pc \notin Rejected \cup {"an.done", "an.thrown"}
    /\ analysis.parked.pc \notin Settled \cup Rejected
    /\ pc' = analysis.parked.pc
    /\ cth' = analysis.parked.cth
    /\ analysis' = [analysis EXCEPT
                        !.running = IF @ = "top20" THEN "full" ELSE "top20",
                        !.parked = Pending(pc, cth, split),
                        !.interleaved = @ \/ MidCall(pc)]
    /\ UNCHANGED <<chain, data, acct, wIn, wOut, hist, histOut, split, lock, report>>

\* the call that runs is at an await (or has settled) and the event loop resumes
\* the other one: each call goes on with its own locals
AnResume ==
    /\ analysis.running # ""
    /\ pc \notin Rejected \cup {"an.done", "an.thrown"}
    /\ analysis.parked.pc \notin Settled \cup Rejected
    /\ pc' = analysis.parked.pc
    /\ cth' = analysis.parked.cth
    /\ split' = analysis.parked.split
    /\ analysis' = [analysis EXCEPT
                        !.running = IF @ = "top20" THEN "full" ELSE "top20",
                        !.parked = Pending(pc, cth, split),
                        !.interleaved = @ \/ MidCall(pc)]
    /\ UNCHANGED <<chain, data, acct, wIn, wOut, hist, histOut, lock, report>>

\* one of the two calls rejects: Promise.all rejects, nothing is caught
AnReject ==
    /\ analysis.running # ""
    /\ pc \in Rejected
    /\ pc' = "an.thrown"
    /\ UNCHANGED <<chain, data, acct, wIn, wOut, hist, histOut, cth, split, lock, report,
                   analysis>>

\* both calls have returned: the metrics and the result
AnReturn ==
    /\ analysis.running # ""
    /\ pc \in Settled /\ analysis.parked.pc \in Settled
    /\ LET top20 == IF analysis.running = "top20" THEN split ELSE analysis.parked.split
           full  == IF analysis.running = "full" THEN split ELSE analysis.parked.split
       IN  analysis' = [analysis EXCEPT !.top20 = top20, !.full = full,
                                        !.summary = AnalysisSummary(full)]
    /\ pc' = "an.done"
    /\ UNCHANGED <<chain, data, acct, wIn, wOut, hist, histOut, cth, split, lock, report>>

NextAnalysis ==
    \/ Top20GetMintInfo \/ CthGetMintInfo \/ ChainQueryFails \/ CthGetTopHolders
    \/ CthHolder \/ CthHolderThrows \/ CthDelay \/ CthReturn \/ Top20Aggregate
    \/ FullGetMintInfo \/ FullQueryFails \/ FullEnumerate \/ FullOwner \/ FullReturn
    \/ AnResume \/ AnReject \/ AnReturn

SpecAnalysis == InitAnalysis /\ [][NextAnalysis]_vars

\* the locals of the bounded split's call, wherever they are
Top20Call == IF analysis.running = "top20" THEN Pending(pc, cth, split) ELSE analysis.parked

\* C24: running the bounded and the exhaustive split concurrently
\* (getSupplyAnalysis) gives, for fixed provider responses and under every
\* interleaving of their suspension points, the same two results as running
\* them one after the other: the two computations share no mutable state.
C24_ConcurrentAsSequential ==
    pc = "an.done" =>
        /\ analysis.top20 = getSupplySplitTop20(chain, Top20Call.cth.thrown)
        /\ analysis.full = getSupplySplitFull(chain)
        /\ analysis.summary = AnalysisSummary(getSupplySplitFull(chain))

C24_Witness ==
    /\ pc = "an.done"
    /\ analysis.interleaved
    /\ analysis.top20.cex > 0 /\ analysis.full.cex > 0
    /\ analysis.top20.cex # analysis.full.cex

\* the bucket one iteration of a split's loop adds the balance to
BucketOf(before, after) ==
    IF after.cex > before.cex THEN "cex"
    ELSE IF after.dex > before.dex THEN "dex"
    ELSE "onchain"

Top20BucketOf(cl) ==
    BucketOf(SplitStart("top20", 0), Top20Bucket(SplitStart("top20", 0), cl))

FullBucketOf(c, entry, totalSupply) ==
    BucketOf(SplitStart("full", totalSupply),
             FullBucket(c, SplitStart("full", totalSupply), entry))

\* C22: the bounded and the exhaustive split run each owner through the same
\* classification pipeline (account type, history, wallet category): an owner
\* that appears in both, with the same metadata and the same transfer history,
\* is assigned to the same bucket (CEX, DEX or on-chain) by both.
C22_SameBucketInBothSplits ==
    pc = "an.done" =>
        \A i \in 1..Len(Top20Call.cth.result), j \in 1..Len(analysis.full.lookups) :
            LET cl == Top20Call.cth.result[i]
                e  == analysis.full.lookups[j]
            IN  e.owner = cl.address =>
                    Top20BucketOf(cl) = FullBucketOf(chain, e, analysis.full.totalSupply)

\* the accumulators of a split agree with each other
BreakdownAccounts(sp) ==
    sp.basis # "" =>
        /\ SumMap(sp.breakdownByExchange) = sp.cex
        /\ (sp.dexName # Undefined /\ sp.dexName # "") <=> sp.dex > 0

\* C27: in both supply splits the per-venue breakdown accounts for the whole CEX
\* bucket: after any sequence of holders, the sum of the values of
\* breakdownByExchange equals cex, and dexName is defined iff at least one
\* holder was added to the dex bucket.
C27_BreakdownSumsToCex ==
    analysis.running # "" =>
        /\ BreakdownAccounts(split)
        /\ BreakdownAccounts(analysis.parked.split)
        /\ BreakdownAccounts(analysis.top20)
        /\ BreakdownAccounts(analysis.full)

C27_Witness ==
    /\ pc = "an.done"
    /\ analysis.full.cex > 0 /\ analysis.full.dex > 0
    /\ analysis.full.dexName = "raydium pool"
    /\ Cardinality(DOMAIN analysis.top20.breakdownByExchange) = 1
    /\ Len(Top20Call.cth.result) >= 2
    /\ analysis.top20.cex >= Top20Call.cth.result[1].balance + Top20Call.cth.result[2].balance

\* C28: in the bounded split, every holder whose wallet category is Exchange is
\* counted in the cex bucket and every holder whose wallet category is Dex is
\* counted in the dex bucket, whatever its account type.
C28_CategoryDecidesBucket ==
    (analysis.running = "top20" /\ pc = "top20.done") =>
        \A i \in 1..Len(cth.result) :
            /\ cth.result[i].category = WalletCategory.Exchange
                   => Top20BucketOf(cth.result[i]) = "cex"
            /\ cth.result[i].category = WalletCategory.Dex
                   => Top20BucketOf(cth.result[i]) = "dex"

====
